---- MODULE Spec2Model ----
(***************************************************************************)
(* Verification model of the prediction engine of analyze-matches-football *)
(* (predictions/ml/ensemble.py, predictor.py, features.py,                 *)
(* enhanced_features.py and management/commands/get_odds.py).              *)
(*                                                                         *)
(* Numbers.  The program computes with Python floats.  A float operation   *)
(* returns the representable value nearest to the exact result; the model  *)
(* keeps that behaviour with a fixed-point number type: a value v stands   *)
(* for v / Scale, sums and differences are exact, and every product and    *)
(* quotient is rounded to the nearest multiple of 1 / Scale (ties to       *)
(* even).  Decimal literals of the source (0.70, 0.25, ...) are converted  *)
(* with Fx.                                                                *)
(*                                                                         *)
(* Specifications.  SpecCombine, SpecKelly and SpecValue apply the pure    *)
(* functions of ensemble.py and get_odds.py to bounded inputs.  SpecFE is  *)
(* the Match table under imports, edits and deletions together with calls  *)
(* of calculate_enhanced_features.  Spec is the predictor: loading an      *)
(* artifact, writing PoissonParams rows, and predicting a match with the   *)
(* ML predictor alone or with the ensemble.  SpecConfidence, SpecGrade,    *)
(* SpecWeights, SpecEloUpdate and SpecOutcome apply _calculate_confidence, *)
(* grade_bet, _combine_predictions under a constructor weight, the Elo     *)
(* update of ml/elo.py and PoissonModel.predict_match_outcome to bounded   *)
(* inputs.  SpecParams, SpecPredict, SpecSparse and SpecElo are the Match, *)
(* PoissonParams, Prediction and EloRating tables under the commands       *)
(* calculate_poisson_params and predict, sparse imports, and EloRating     *)
(* inserts and reads.  SpecEloHelpers, SpecCompare, SpecStrengths and      *)
(* SpecMatrix apply the K-factor and goal-margin helpers, the Dixon-Coles  *)
(* correction, estimate_team_strengths and the corrections used by         *)
(* _predict_poisson to bounded inputs; SpecMomentum follows one EloRating  *)
(* row through rating updates and reads of elo_momentum; SpecImport is a   *)
(* background import job with its worker thread, its log flush thread and  *)
(* a cancel request.                                                       *)
(***************************************************************************)
EXTENDS Integers, Sequences, FiniteSets, TLC

VARIABLES
    args,             \* arguments of the call being evaluated
    ret,              \* value returned (or exception raised) by that call
    poisson_params,   \* table PoissonParams: rows keyed (team, season)
    models,           \* EnhancedPredictor.models: market -> model loaded?
    feature_columns,  \* EnhancedPredictor.ENHANCED_FEATURE_COLUMNS (instance)
    matches,          \* table Match: id -> row, for the stored matches
    predictions,      \* table Prediction: the set of its rows
    elo_ratings,      \* table EloRating: the set of its rows
    import_jobs,      \* table ImportJob: the set of its rows
    threads           \* the import threads: their position and local variables

vars == <<args, ret, poisson_params, models, feature_columns, matches, predictions, elo_ratings, import_jobs, threads>>

\* ---------------------------------------------------------------- bounds
Scale == 1000      \* resolution of the modelled arithmetic
PGrid == 3         \* probabilities fed to _combine_predictions: k / PGrid
KGrid == 20        \* probabilities fed to the Kelly functions: k / KGrid
VGrid == 10        \* probabilities of the predictions checked for value: k / VGrid
OddsGrid == 2      \* decimal odds: j / OddsGrid ...
MaxOdds == 4       \* ... up to MaxOdds

\* ------------------------------------------------------------ arithmetic
None == -1                       \* a null number (a nullable column, a missing odd)
NoneStr == "None"                \* a null string
NoneRec == [none |-> TRUE]       \* a null dict
NoRet == [status |-> "none"]

\* {**g, **f}: the entries of f, and those of g under the keys f lacks
Merge(f, g) == [k \in DOMAIN f \cup DOMAIN g |-> IF k \in DOMAIN f THEN f[k] ELSE g[k]]

Abs(x) == IF x < 0 THEN -x ELSE x
Min(a, b) == IF a <= b THEN a ELSE b
Max(a, b) == IF a >= b THEN a ELSE b

\* n / d rounded to the nearest integer, ties to even (d > 0)
RoundDiv(n, d) ==
    LET q == n \div d
        r == n % d
    IN  IF 2 * r < d THEN q
        ELSE IF 2 * r > d THEN q + 1
        ELSE IF q % 2 = 0 THEN q ELSE q + 1

Fx(n, d) == RoundDiv(n * Scale, d)          \* the literal n / d
One == Scale
FMul(a, b) == RoundDiv(a * b, Scale)        \* a * b
FDiv(a, b) ==                               \* a / b, b # 0
    IF b > 0 THEN RoundDiv(a * Scale, b) ELSE RoundDiv((-a) * Scale, -b)

\* ------------------------------------------- EnsemblePredictor (ensemble.py)
\* self.market_weights, set in __init__
market_weights ==
    [result  |-> [ml |-> Fx(70, 100), poisson |-> Fx(30, 100)],
     over_25 |-> [ml |-> Fx(50, 100), poisson |-> Fx(50, 100)],
     btts    |-> [ml |-> Fx(50, 100), poisson |-> Fx(50, 100)],
     over_35 |-> [ml |-> Fx(45, 100), poisson |-> Fx(55, 100)]]

\* lines 195-199: divide the three weighted probabilities by their total
NormalizeUnchanged(h, d, a) == [prob_home |-> h, prob_draw |-> d, prob_away |-> a]
NormalizeTriple(h, d, a) ==
    LET total == h + d + a
    IN  [prob_home |-> FDiv(h, total),
         prob_draw |-> FDiv(d, total),
         prob_away |-> FDiv(a, total)]

\* _combine_predictions(ml_pred, poisson_pred); total = 0 divides by zero
_combine_predictions(ml_pred, poisson_pred) ==
    LET w_ml      == market_weights.result.ml
        w_poisson == market_weights.result.poisson
        prob_home == FMul(w_ml, ml_pred.prob_home) + FMul(w_poisson, poisson_pred.prob_home)
        prob_draw == FMul(w_ml, ml_pred.prob_draw) + FMul(w_poisson, poisson_pred.prob_draw)
        prob_away == FMul(w_ml, ml_pred.prob_away) + FMul(w_poisson, poisson_pred.prob_away)
        total     == prob_home + prob_draw + prob_away
        norm      == NormalizeTriple(prob_home, prob_draw, prob_away)
        prob_over_25 == FMul(market_weights.over_25.ml, ml_pred.prob_over_25)
                        + FMul(market_weights.over_25.poisson, poisson_pred.prob_over_25)
        prob_btts    == FMul(market_weights.btts.ml, ml_pred.prob_btts)
                        + FMul(market_weights.btts.poisson, poisson_pred.prob_btts)
    IN  IF total = 0 THEN [status |-> "ZeroDivisionError"]
        ELSE [status       |-> "ok",
              prob_home    |-> norm.prob_home,
              prob_draw    |-> norm.prob_draw,
              prob_away    |-> norm.prob_away,
              prob_over_25 |-> prob_over_25,
              prob_btts    |-> prob_btts,
              expected_total_goals |-> poisson_pred.expected_total_goals]

\* --------------------------------------------- ValueBetDetector (ensemble.py)
\* "if not x" / "if x": None and 0 are falsy
Falsy(x) == x = None \/ x = 0

\* round(kelly * 100, 2): a percentage with two decimals, returned here as
\* the number of hundredths of a percent (10.00 % is 1000)
RoundPercent2(kelly) == RoundDiv(kelly * 100 * 100, Scale)

\* _kelly_stake with the limits of line 458 left out
_kelly_stake_unclamped(probability, odds, fraction) ==
    IF odds = None THEN [status |-> "TypeError"]
    ELSE LET b == odds - One
             p == probability
             q == One - p
         IN  IF b = 0 THEN [status |-> "ZeroDivisionError"]
             ELSE [status |-> "ok",
                   value  |-> RoundPercent2(FMul(FDiv(FMul(b, p) - q, b), fraction))]

\* _kelly_stake with p and q exchanged: the stake on the opposite side of the bet
_kelly_stake_against(probability, odds, fraction) ==
    IF odds = None THEN [status |-> "TypeError"]
    ELSE LET b == odds - One
             p == One - probability
             q == probability
         IN  IF b = 0 THEN [status |-> "ZeroDivisionError"]
             ELSE [status |-> "ok",
                   value  |-> RoundPercent2(Max(0, Min(FMul(FDiv(FMul(b, p) - q, b), fraction),
                                                       Fx(10, 100))))]

\* _kelly_stake(probability, odds, fraction)
_kelly_stake(probability, odds, fraction) ==
    IF odds = None THEN [status |-> "TypeError"]          \* None - 1
    ELSE LET b == odds - One
             p == probability
             q == One - p
         IN  IF b = 0 THEN [status |-> "ZeroDivisionError"]
             ELSE LET kelly  == FDiv(FMul(b, p) - q, b)
                      scaled == FMul(kelly, fraction)
                      capped == Max(0, Min(scaled, Fx(10, 100)))
                  IN  [status |-> "ok", value |-> RoundPercent2(capped)]

Outcomes == <<"home", "draw", "away">>
MarketName == [home |-> "home_win", draw |-> "draw", away |-> "away_win"]
ModelProb(prediction, o) ==
    CASE o = "home" -> prediction.prob_home
      [] o = "draw" -> prediction.prob_draw
      [] o = "away" -> prediction.prob_away

\* lines 362-372: implied probabilities, normalised when their total is positive
ImpliedVector(odds) ==
    LET raw   == [o \in {"home", "draw", "away"} |->
                     IF Falsy(odds[o]) THEN 0 ELSE FDiv(One, odds[o])]
        total == raw.home + raw.draw + raw.away
    IN  IF total > 0
        THEN [o \in {"home", "draw", "away"} |-> FDiv(raw[o], total)]
        ELSE raw

\* the test of lines 376, 393 and 410
IsValueEdge(edge, min_edge) == edge > min_edge

\* find_value_bets(match), given the ensemble's prediction for the match
find_value_bets(odds, prediction, min_edge) ==
    IF Falsy(odds.home) THEN [status |-> "ok", value_bets |-> <<>>]
    ELSE
    LET implied == ImpliedVector(odds)
        edge(o) == ModelProb(prediction, o) - implied[o]
        flagged(o) == IsValueEdge(edge(o), min_edge)
        stake(o) == _kelly_stake(ModelProb(prediction, o), odds[o], Fx(25, 100))
        bet(o) == [market      |-> MarketName[o],
                   model_prob  |-> ModelProb(prediction, o),
                   implied_prob |-> implied[o],
                   edge        |-> edge(o),
                   odds        |-> odds[o],
                   confidence  |-> prediction.confidence,
                   recommended_stake |-> stake(o).value]
        \* the outcomes are handled in order; the first stake that raises ends the call
        failing == SelectSeq(Outcomes, LAMBDA o : flagged(o) /\ stake(o).status # "ok")
        kept    == SelectSeq(Outcomes, LAMBDA o : flagged(o))
    IN  IF failing # <<>> THEN [status |-> stake(Head(failing)).status]
        ELSE [status |-> "ok", value_bets |-> [i \in 1..Len(kept) |-> bet(kept[i])]]

\* ------------------------------------------------ get_odds.py (command)
calculate_implied_probability(odds) == FDiv(One, odds)

calculate_margin(home_odds, draw_odds, away_odds) ==
    (FDiv(One, home_odds) + FDiv(One, draw_odds) + FDiv(One, away_odds) - One) * 100

calculate_edge(model_prob, implied_prob) == model_prob - implied_prob

\* a ladder whose steps include their lower bound
grade_bet_inclusive(edge) ==
    IF edge >= Fx(10, 100) THEN "A+"
    ELSE IF edge >= Fx(7, 100) THEN "A"
    ELSE IF edge >= Fx(5, 100) THEN "B"
    ELSE IF edge >= Fx(3, 100) THEN "C"
    ELSE IF edge >= Fx(2, 100) THEN "D"
    ELSE "F"

grade_bet(edge) ==
    IF edge > Fx(10, 100) THEN "A+"
    ELSE IF edge > Fx(7, 100) THEN "A"
    ELSE IF edge > Fx(5, 100) THEN "B"
    ELSE IF edge > Fx(3, 100) THEN "C"
    ELSE IF edge > Fx(2, 100) THEN "D"
    ELSE "F"

\* kelly_stake(probability, odds, bankroll, fraction, max_stake_pct) -> (stake, kelly_fraction)
kelly_stake(probability, odds, bankroll, fraction, max_stake_pct) ==
    LET edge == FMul(probability, odds) - One
    IN  IF edge <= 0 THEN [stake |-> 0, kelly_fraction |-> 0]
        ELSE LET kelly_fraction == FDiv(edge, odds - One)
                 stake == FMul(FMul(bankroll, kelly_fraction), fraction)
             IN  [stake |-> Min(stake, FMul(bankroll, max_stake_pct)),
                  kelly_fraction |-> kelly_fraction]

\* calculate_ev(probability, odds, stake) -> (ev, roi)
calculate_ev(probability, odds, stake) ==
    LET win_amount  == FMul(stake, odds - One)
        lose_amount == stake
        ev == FMul(probability, win_amount) - FMul(One - probability, lose_amount)
    IN  [ev |-> ev, roi |-> IF stake > 0 THEN FDiv(ev, stake) * 100 ELSE 0]

\* the default max_stake_pct of kelly_stake, which analyze_bet does not override
DefaultMaxStakePct == Fx(5, 100)

analyze_bet(model_prob, odds, bankroll, outcome, kelly_fraction, min_edge) ==
    LET implied_prob == calculate_implied_probability(odds)
        edge  == calculate_edge(model_prob, implied_prob)
        ks    == kelly_stake(model_prob, odds, bankroll, kelly_fraction, DefaultMaxStakePct)
        evroi == IF ks.stake > 0 THEN calculate_ev(model_prob, odds, ks.stake)
                 ELSE [ev |-> 0, roi |-> 0]
    IN  [outcome |-> outcome, model_prob |-> model_prob, odds |-> odds,
         implied_prob |-> implied_prob, edge |-> edge, grade |-> grade_bet(edge),
         kelly_fraction |-> ks.kelly_fraction, stake |-> ks.stake,
         ev |-> evroi.ev, roi |-> evroi.roi,
         is_value |-> edge >= min_edge]

analyze_match(home_prob, draw_prob, away_prob, home_odds, draw_odds, away_odds, bankroll, kelly_fraction, min_edge) ==
    LET analyses ==
            [home |-> analyze_bet(home_prob, home_odds, bankroll, "Home Win", kelly_fraction, min_edge),
             draw |-> analyze_bet(draw_prob, draw_odds, bankroll, "Draw", kelly_fraction, min_edge),
             away |-> analyze_bet(away_prob, away_odds, bankroll, "Away Win", kelly_fraction, min_edge)]
        value_bets == SelectSeq(Outcomes, LAMBDA o : analyses[o].is_value)
        \* max(..., key=edge): the first of the largest
        best == CHOOSE i \in 1..3 :
                    /\ \A j \in 1..3 : analyses[Outcomes[j]].edge <= analyses[Outcomes[i]].edge
                    /\ \A j \in 1..(i - 1) : analyses[Outcomes[j]].edge < analyses[Outcomes[i]].edge
    IN  [status |-> "ok",
         margin |-> calculate_margin(home_odds, draw_odds, away_odds),
         analyses |-> analyses,
         value_bets |-> value_bets,
         best_value |-> IF analyses[Outcomes[best]].is_value THEN Outcomes[best] ELSE NoneStr]

\* ---------------------------------------------------- inputs of the checks
Probs == {Fx(k, PGrid) : k \in 0..PGrid}
\* a prediction dict as produced by the ML adapter (ml_flat)
MLPreds ==
    [prob_home : Probs, prob_draw : Probs, prob_away : Probs,
     prob_over_25 : {Fx(1, 2)}, prob_btts : {Fx(2, 5)}]
\* a prediction dict as returned by _predict_poisson
PoissonPreds ==
    [prob_home : Probs, prob_draw : Probs, prob_away : Probs,
     prob_over_25 : {Fx(3, 5)}, prob_btts : {Fx(1, 2)},
     lambda_home : {Fx(3, 2)}, lambda_away : {Fx(1, 1)},
     expected_total_goals : {Fx(5, 2)}]

\* no import was started
NoThreads == [worker |-> "none"]

\* state of the parts a specification does not exercise
IdleDb ==
    /\ poisson_params = {}
    /\ models = [m \in {"result", "over_25", "btts"} |-> TRUE]
    /\ feature_columns = <<>>
    /\ matches = <<>>
    /\ predictions = {}
    /\ elo_ratings = {}
    /\ import_jobs = {}
    /\ threads = NoThreads

\* ------------------------------------- specification: _combine_predictions
InitCombine ==
    /\ args \in [op : {"_combine_predictions"}, ml_pred : MLPreds, poisson_pred : PoissonPreds]
    /\ ret = NoRet
    /\ IdleDb

CombinePredictions ==
    /\ args.op = "_combine_predictions"
    /\ ret = NoRet
    /\ ret' = _combine_predictions(args.ml_pred, args.poisson_pred)
    /\ UNCHANGED <<args, poisson_params, models, feature_columns, matches, predictions, elo_ratings, import_jobs, threads>>

NextCombine == CombinePredictions
SpecCombine == InitCombine /\ [][NextCombine]_vars

WeightedTotal(c) ==
    FMul(market_weights.result.ml, c.ml_pred.prob_home + c.ml_pred.prob_draw + c.ml_pred.prob_away)
    + FMul(market_weights.result.poisson,
           c.poisson_pred.prob_home + c.poisson_pred.prob_draw + c.poisson_pred.prob_away)

ResultSum(r) == r.prob_home + r.prob_draw + r.prob_away
InputSum(p) == p.prob_home + p.prob_draw + p.prob_away

\* C1 (as stated): whenever the weighted total is positive, the combined
\* prob_home, prob_draw and prob_away sum to exactly 1.
C1_SumExactlyOne ==
    (ret.status = "ok") => ResultSum(ret) = One

\* C1 (amended): whenever the weighted total is positive, the combined
\* result triple sums to 1 up to the rounding of the three divisions (at
\* most one unit of the arithmetic's resolution), whatever the input
\* triples sum to.
C1_SumOneWithinRounding ==
    (ret.status = "ok") => Abs(ResultSum(ret) - One) <= 1

\* a combined triple was produced from two triples that do not sum to 1
C1_Witness ==
    /\ ret.status = "ok"
    /\ InputSum(args.ml_pred) # One
    /\ InputSum(args.poisson_pred) # One
    /\ Abs(ResultSum(ret) - One) <= 1

\* ------------------------------------------------ inputs: odds and stakes
OddsAboveOne == {Fx(j, OddsGrid) : j \in (OddsGrid + 1)..(OddsGrid * MaxOdds)}
\* what an odds attribute of a match can hold: null, 0, 1.0 or a real price
OddsVals == {None, 0, One} \cup OddsAboveOne
MinEdges == {Fx(5, 100), Fx(10, 100)}
Bankrolls == {Fx(1000, 1)}
VBPredictions ==
    {[prob_home |-> Fx(ij[1], VGrid), prob_draw |-> Fx(ij[2], VGrid),
      prob_away |-> Fx(VGrid - ij[1] - ij[2], VGrid), confidence |-> 70] :
        ij \in {x \in (0..VGrid) \X (0..VGrid) : x[1] + x[2] <= VGrid}}

\* ------------------------------------------ specification: the Kelly stakes
InitKelly ==
    /\ args \in [op : {"kelly"},
                 probability : {Fx(k, KGrid) : k \in 0..KGrid},
                 odds : {One} \cup OddsAboveOne,
                 bankroll : Bankrolls,
                 fraction : {Fx(25, 100)},
                 max_stake_pct : {Fx(5, 100), Fx(10, 100)}]
    /\ ret = NoRet
    /\ IdleDb

\* ValueBetDetector._kelly_stake(probability, odds, fraction)
EnsembleKelly ==
    /\ args.op = "kelly"
    /\ ret = NoRet
    /\ ret' = _kelly_stake(args.probability, args.odds, args.fraction)
    /\ UNCHANGED <<args, poisson_params, models, feature_columns, matches, predictions, elo_ratings, import_jobs, threads>>

\* get_odds.kelly_stake(probability, odds, bankroll, fraction, max_stake_pct)
CommandKelly ==
    /\ args.op = "kelly"
    /\ ret = NoRet
    /\ ret' = Merge([status |-> "ok"],
                     kelly_stake(args.probability, args.odds, args.bankroll,
                                 args.fraction, args.max_stake_pct))
    /\ UNCHANGED <<args, poisson_params, models, feature_columns, matches, predictions, elo_ratings, import_jobs, threads>>

NextKelly == EnsembleKelly \/ CommandKelly
SpecKelly == InitKelly /\ [][NextKelly]_vars

\* p * odds <= 1, compared exactly
EdgeNotPositive(p, odds) == p * odds <= Scale * Scale

\* C5: for p in [0,1] and odds > 1 both Kelly stakes are never negative,
\* never above their cap (10.00 % in _kelly_stake, max_stake_pct * bankroll
\* in kelly_stake) and exactly 0 whenever p * odds <= 1.
C5_KellyStakeBounds ==
    (ret.status = "ok" /\ args.odds > One) =>
        /\ ("value" \in DOMAIN ret) =>
              /\ ret.value >= 0
              /\ ret.value <= 10 * 100
              /\ EdgeNotPositive(args.probability, args.odds) => ret.value = 0
        /\ ("stake" \in DOMAIN ret) =>
              /\ ret.stake >= 0
              /\ ret.stake <= FMul(args.bankroll, args.max_stake_pct)
              /\ EdgeNotPositive(args.probability, args.odds) => ret.stake = 0

\* _kelly_stake returned 0 for a bet whose Kelly fraction is negative
C5_Witness ==
    /\ ret.status = "ok"
    /\ "value" \in DOMAIN ret
    /\ args.odds > One
    /\ args.probability > 0
    /\ args.probability * args.odds < Scale * Scale
    /\ ret.value = 0

\* ------------------------------------- specification: value-bet evaluation
InitValue ==
    /\ args \in [op : {"value"},
                 prediction : VBPredictions,
                 odds : [{"home", "draw", "away"} -> OddsVals],
                 min_edge : MinEdges,
                 bankroll : Bankrolls,
                 kelly_fraction : {Fx(25, 100)}]
    /\ ret = NoRet
    /\ IdleDb

\* ValueBetDetector.find_value_bets(match)
FindValueBets ==
    /\ args.op = "value"
    /\ ret = NoRet
    /\ ret' = find_value_bets(args.odds, args.prediction, args.min_edge)
    /\ UNCHANGED <<args, poisson_params, models, feature_columns, matches, predictions, elo_ratings, import_jobs, threads>>

\* get_odds.Command.handle, lines 309-345: analyze_match is reached only
\* when all three odds are truthy
AnalyzeMatch ==
    /\ args.op = "value"
    /\ ret = NoRet
    /\ \A o \in {"home", "draw", "away"} : ~Falsy(args.odds[o])
    /\ ret' = analyze_match(args.prediction.prob_home, args.prediction.prob_draw,
                            args.prediction.prob_away,
                            args.odds.home, args.odds.draw, args.odds.away,
                            args.bankroll, args.kelly_fraction, args.min_edge)
    /\ UNCHANGED <<args, poisson_params, models, feature_columns, matches, predictions, elo_ratings, import_jobs, threads>>

NextValue == FindValueBets \/ AnalyzeMatch
SpecValue == InitValue /\ [][NextValue]_vars

FromFindValueBets == ret # NoRet /\ "analyses" \notin DOMAIN ret
FromAnalyzeMatch == "analyses" \in DOMAIN ret
OutcomeSet == {"home", "draw", "away"}
AllOddsPresent == \A o \in OutcomeSet : ~Falsy(args.odds[o])
AllOddsValid == \A o \in OutcomeSet : args.odds[o] > One
\* the bookmaker's margin 1/h + 1/d + 1/a - 1 is not negative
MarginNotNegative ==
    AllOddsPresent /\
    FDiv(One, args.odds.home) + FDiv(One, args.odds.draw) + FDiv(One, args.odds.away) >= One
EmittedMarkets == {ret.value_bets[i].market : i \in 1..Len(ret.value_bets)}
SumOver(f) == f.home + f.draw + f.away

\* C4: in every 1X2 evaluation the implied probabilities subtracted from the
\* model probabilities are de-margined: with all three odds present they
\* sum to 1 (up to the rounding of the divisions) over home, draw and away.
C4_ImpliedSumToOne ==
    AllOddsPresent =>
        /\ FromAnalyzeMatch =>
              /\ Abs(ret.analyses.home.implied_prob + ret.analyses.draw.implied_prob
                     + ret.analyses.away.implied_prob - One) <= 2
              /\ \A o \in OutcomeSet :
                    ret.analyses[o].edge = ret.analyses[o].model_prob - ret.analyses[o].implied_prob
        /\ (FromFindValueBets /\ ret.status = "ok") =>
              /\ Abs(SumOver(ImpliedVector(args.odds)) - One) <= 2
              /\ \A i \in 1..Len(ret.value_bets) :
                    ret.value_bets[i].edge
                        = ret.value_bets[i].model_prob - ret.value_bets[i].implied_prob

\* C6: with valid odds and a non-negative margin, every value bet returned
\* by find_value_bets carries a recommended_stake > 0.
C6_ValueBetStakePositive ==
    (FromFindValueBets /\ ret.status = "ok" /\ AllOddsValid /\ MarginNotNegative) =>
        \A i \in 1..Len(ret.value_bets) : ret.value_bets[i].recommended_stake > 0

\* C7: an outcome is flagged as a value bet exactly when edge >= min_edge,
\* the boundary edge = min_edge included, in find_value_bets and in analyze_bet.
C7_FlaggedIffEdgeAtLeastMin ==
    AllOddsValid =>
        /\ FromAnalyzeMatch =>
              \A o \in OutcomeSet :
                  ret.analyses[o].is_value <=> (ret.analyses[o].edge >= args.min_edge)
        /\ (FromFindValueBets /\ ret.status = "ok") =>
              \A o \in OutcomeSet :
                  (MarketName[o] \in EmittedMarkets)
                      <=> (ModelProb(args.prediction, o) - ImpliedVector(args.odds)[o]
                             >= args.min_edge)

\* C8: with the home odds present and the draw or away odds missing, zero or
\* 1.0, find_value_bets raises nothing and emits no bet for an outcome whose
\* odds are missing or invalid; with the home odds missing it returns [].
InvalidOdd(x) == x = None \/ x = 0 \/ x = One
C8_InvalidOddsSkipped ==
    FromFindValueBets =>
        /\ Falsy(args.odds.home) => (ret.status = "ok" /\ ret.value_bets = <<>>)
        /\ (args.odds.home > One /\ (InvalidOdd(args.odds.draw) \/ InvalidOdd(args.odds.away))) =>
              /\ ret.status = "ok"
              /\ \A o \in {"draw", "away"} :
                    InvalidOdd(args.odds[o]) => MarketName[o] \notin EmittedMarkets

\* ------------------------------------------------ table Match (models.py)
\* The fixture list: identity, teams, kickoff, competition and season of the
\* match with primary key i.  Kickoffs are distinct, so order_by('-utc_date')
\* is a total order.
NumFixtures == 6
MatchIds == 1..NumFixtures
Fixture(i) ==
    [id            |-> i,
     home_team_id  |-> IF i = 3 THEN 3 ELSE IF i % 2 = 1 THEN 1 ELSE 2,
     away_team_id  |-> IF i = 3 THEN 1 ELSE IF i % 2 = 1 THEN 2 ELSE 1,
     utc_date      |-> i,
     competition_id |-> 1,
     season        |-> IF i = 1 THEN 2023 ELSE 2024]

\* what the mutable columns of a row can hold: a match not yet played, and
\* played matches with and without detailed statistics
NotPlayed ==
    [status |-> "SCHEDULED", home_score |-> None, away_score |-> None,
     corners_home |-> None, corners_away |-> None,
     shots_home |-> None, shots_away |-> None,
     shots_on_target_home |-> None, shots_on_target_away |-> None]
RowContents ==
    {NotPlayed,
     [status |-> "FINISHED", home_score |-> 2, away_score |-> 1,
      corners_home |-> 6, corners_away |-> 4,
      shots_home |-> 12, shots_away |-> 0,
      shots_on_target_home |-> 5, shots_on_target_away |-> 0],
     [status |-> "FINISHED", home_score |-> 0, away_score |-> 0,
      corners_home |-> None, corners_away |-> None,
      shots_home |-> None, shots_away |-> None,
      shots_on_target_home |-> None, shots_on_target_away |-> None]}

\* the row of fixture i with contents c
Row(i, c) == Merge(Fixture(i), c)

\* the rows of the table
Rows(db) == {db[i] : i \in DOMAIN db}

\* Match.result, Match.total_goals, Match.both_teams_scored (properties)
result(m) ==
    IF m.home_score = None \/ m.away_score = None THEN NoneStr
    ELSE IF m.home_score > m.away_score THEN "H"
    ELSE IF m.home_score < m.away_score THEN "A"
    ELSE "D"
total_goals(m) ==
    IF m.home_score = None \/ m.away_score = None THEN None
    ELSE m.home_score + m.away_score
both_teams_scored(m) == m.home_score > 0 /\ m.away_score > 0

\* --------------------------------------------- FeatureEngineer (features.py)
\* the filter every history query applies: status='FINISHED', utc_date__lt=before_date
FinishedAnyDate(m, before_date) == m.status = "FINISHED"
FinishedBefore(m, before_date) == m.status = "FINISHED" /\ m.utc_date < before_date

\* .order_by('-utc_date')
RECURSIVE OrderByDateDesc(_)
OrderByDateDesc(S) ==
    IF S = {} THEN <<>>
    ELSE LET m == CHOOSE x \in S : \A y \in S :
                      y.utc_date < x.utc_date \/ (y.utc_date = x.utc_date /\ y.id <= x.id)
         IN  <<m>> \o OrderByDateDesc(S \ {m})
\* [:n]
Take(s, n) == SubSeq(s, 1, Min(n, Len(s)))
\* Q(home_team_id=team_id) | Q(away_team_id=team_id)
Plays(m, team_id) == m.home_team_id = team_id \/ m.away_team_id = team_id
\* "x or 0"
OrZero(x) == IF Falsy(x) THEN 0 ELSE x

\* F(v) with v evaluated once (a local variable of the source)
Bind(v, F(_)) == CHOOSE r \in {F(x) : x \in {v}} : TRUE

RECURSIVE SumSeq(_)
SumSeq(s) == IF s = <<>> THEN 0 ELSE Head(s) + SumSeq(Tail(s))
SeqMap(F(_), s) == [i \in 1..Len(s) |-> F(s[i])]
Count(P(_), s) == Len(SelectSeq(s, P))
\* np.mean of a list of integers; a / b for integers a, b
Mean(s) == RoundDiv(SumSeq(s) * Scale, Len(s))
Ratio(a, b) == RoundDiv(a * Scale, b)

\* goals for / against and points of team_id in match m
GoalsFor(m, team_id) ==
    IF m.home_team_id = team_id THEN OrZero(m.home_score) ELSE OrZero(m.away_score)
GoalsAgainst(m, team_id) ==
    IF m.home_team_id = team_id THEN OrZero(m.away_score) ELSE OrZero(m.home_score)
Points(gf, ga) == IF gf > ga THEN 3 ELSE IF gf < ga THEN 0 ELSE 1

_empty_form ==
    [matches_played |-> 0, points |-> 0, avg_points |-> 0, goals_for |-> 0,
     goals_against |-> 0, avg_goals_for |-> 0, avg_goals_against |-> 0,
     goal_diff |-> 0, form_string |-> <<>>, wins |-> 0, draws |-> 0, losses |-> 0,
     win_rate |-> 0, unbeaten_rate |-> 0]

_empty_season_stats ==
    [matches |-> 0, wins |-> 0, draws |-> 0, losses |-> 0, goals_for |-> 0,
     goals_against |-> 0, points |-> 0, ppg |-> 0, avg_goals_for |-> 0,
     avg_goals_against |-> 0, win_rate |-> 0, clean_sheet_rate |-> 0,
     btts_rate |-> 0, over_25_rate |-> 0]

get_team_form(db, team_id, before_date, n_matches) ==
    Bind(Take(OrderByDateDesc({m \in Rows(db) :
                 Plays(m, team_id) /\ FinishedBefore(m, before_date)}), n_matches),
         LAMBDA ms :
    LET gf(m) == GoalsFor(m, team_id)
        ga(m) == GoalsAgainst(m, team_id)
        pt(m) == Points(gf(m), ga(m))
        letter(m) == IF gf(m) > ga(m) THEN "W" ELSE IF gf(m) < ga(m) THEN "L" ELSE "D"
        results == SeqMap(letter, ms)
        wins   == Count(LAMBDA r : r = "W", results)
        draws  == Count(LAMBDA r : r = "D", results)
        losses == Count(LAMBDA r : r = "L", results)
    IN  IF ms = <<>> THEN _empty_form
        ELSE [matches_played |-> Len(ms),
              points |-> SumSeq(SeqMap(pt, ms)),
              avg_points |-> Mean(SeqMap(pt, ms)),
              goals_for |-> SumSeq(SeqMap(gf, ms)),
              goals_against |-> SumSeq(SeqMap(ga, ms)),
              avg_goals_for |-> Mean(SeqMap(gf, ms)),
              avg_goals_against |-> Mean(SeqMap(ga, ms)),
              goal_diff |-> SumSeq(SeqMap(gf, ms)) - SumSeq(SeqMap(ga, ms)),
              form_string |-> results,
              wins |-> wins, draws |-> draws, losses |-> losses,
              win_rate |-> Ratio(wins, Len(results)),
              unbeaten_rate |-> Ratio(wins + draws, Len(results))])

get_home_away_form(db, team_id, before_date, is_home, n_matches) ==
    Bind(Take(OrderByDateDesc({m \in Rows(db) :
                 /\ IF is_home THEN m.home_team_id = team_id ELSE m.away_team_id = team_id
                 /\ FinishedBefore(m, before_date)}), n_matches),
         LAMBDA ms :
    LET gf(m) == IF is_home THEN OrZero(m.home_score) ELSE OrZero(m.away_score)
        ga(m) == IF is_home THEN OrZero(m.away_score) ELSE OrZero(m.home_score)
        pt(m) == Points(gf(m), ga(m))
        points == SeqMap(pt, ms)
    IN  IF ms = <<>> THEN _empty_form
        ELSE [matches_played |-> Len(ms),
              avg_points |-> Mean(points),
              avg_goals_for |-> Mean(SeqMap(gf, ms)),
              avg_goals_against |-> Mean(SeqMap(ga, ms)),
              win_rate |-> Ratio(Count(LAMBDA x : x = 3, points), Len(points))])

get_head_to_head(db, team1_id, team2_id, before_date, n_matches) ==
    Bind(Take(OrderByDateDesc({m \in Rows(db) :
                 /\ \/ m.home_team_id = team1_id /\ m.away_team_id = team2_id
                    \/ m.home_team_id = team2_id /\ m.away_team_id = team1_id
                 /\ FinishedBefore(m, before_date)}), n_matches),
         LAMBDA ms :
    LET t1(m) == GoalsFor(m, team1_id)
        t2(m) == GoalsAgainst(m, team1_id)
        team1_wins == Count(LAMBDA m : t1(m) > t2(m), ms)
        team2_wins == Count(LAMBDA m : t1(m) < t2(m), ms)
        draws      == Count(LAMBDA m : t1(m) = t2(m), ms)
        team1_goals == SumSeq(SeqMap(t1, ms))
        team2_goals == SumSeq(SeqMap(t2, ms))
    IN  IF ms = <<>>
        THEN [total_matches |-> 0, team1_wins |-> 0, team2_wins |-> 0, draws |-> 0,
              team1_goals |-> 0, team2_goals |-> 0, avg_goals |-> 0]
        ELSE [total_matches |-> Len(ms),
              team1_wins |-> team1_wins, team2_wins |-> team2_wins, draws |-> draws,
              team1_goals |-> team1_goals, team2_goals |-> team2_goals,
              team1_win_rate |-> Ratio(team1_wins, Len(ms)),
              team2_win_rate |-> Ratio(team2_wins, Len(ms)),
              draw_rate |-> Ratio(draws, Len(ms)),
              avg_goals |-> Ratio(team1_goals + team2_goals, Len(ms)),
              team1_avg_goals |-> Ratio(team1_goals, Len(ms)),
              team2_avg_goals |-> Ratio(team2_goals, Len(ms))])

get_season_stats(db, team_id, competition_id, season, before_date) ==
    Bind({m \in Rows(db) :
             /\ Plays(m, team_id)
             /\ m.competition_id = competition_id /\ m.season = season
             /\ FinishedBefore(m, before_date)},
         LAMBDA S :
    LET gf(m) == GoalsFor(m, team_id)
        ga(m) == GoalsAgainst(m, team_id)
        is_home(m) == m.home_team_id = team_id
        won(m)  == gf(m) > ga(m)
        lost(m) == gf(m) < ga(m)
        drew(m) == gf(m) = ga(m)
        N(P(_)) == Cardinality({m \in S : P(m)})
        n == Cardinality(S)
        wins == N(won)
        draws == N(drew)
        goals_for == SumSeq(SeqMap(gf, OrderByDateDesc(S)))
        goals_against == SumSeq(SeqMap(ga, OrderByDateDesc(S)))
        clean_sheets == N(LAMBDA m : ga(m) = 0)
        btts == N(LAMBDA m : gf(m) > 0 /\ ga(m) > 0)
        over_25 == N(LAMBDA m : gf(m) + ga(m) > 2)
    IN  IF S = {} THEN _empty_season_stats
        ELSE [matches |-> n, wins |-> wins, draws |-> draws, losses |-> N(lost),
              goals_for |-> goals_for, goals_against |-> goals_against,
              home_wins |-> N(LAMBDA m : won(m) /\ is_home(m)),
              home_draws |-> N(LAMBDA m : drew(m) /\ is_home(m)),
              home_losses |-> N(LAMBDA m : lost(m) /\ is_home(m)),
              away_wins |-> N(LAMBDA m : won(m) /\ ~is_home(m)),
              away_draws |-> N(LAMBDA m : drew(m) /\ ~is_home(m)),
              away_losses |-> N(LAMBDA m : lost(m) /\ ~is_home(m)),
              clean_sheets |-> clean_sheets,
              failed_to_score |-> N(LAMBDA m : gf(m) = 0),
              btts |-> btts, over_25 |-> over_25,
              points |-> wins * 3 + draws,
              ppg |-> Ratio(wins * 3 + draws, n),
              avg_goals_for |-> Ratio(goals_for, n),
              avg_goals_against |-> Ratio(goals_against, n),
              win_rate |-> Ratio(wins, n),
              clean_sheet_rate |-> Ratio(clean_sheets, n),
              btts_rate |-> Ratio(btts, n),
              over_25_rate |-> Ratio(over_25, n)])

\* the entries added for a match that has been played (lines 392-413)
TargetLabels(match) ==
    [result |-> result(match),
     home_goals |-> match.home_score,
     away_goals |-> match.away_score,
     total_goals |-> total_goals(match),
     btts |-> IF both_teams_scored(match) THEN 1 ELSE 0,
     over_25 |-> IF total_goals(match) > 2 THEN 1 ELSE 0,
     corners_home |-> match.corners_home, corners_away |-> match.corners_away,
     shots_home |-> match.shots_home, shots_away |-> match.shots_away,
     shots_on_target_home |-> match.shots_on_target_home,
     shots_on_target_away |-> match.shots_on_target_away]
LabelKeys ==
    {"result", "home_goals", "away_goals", "total_goals", "btts", "over_25",
     "corners_home", "corners_away", "shots_home", "shots_away",
     "shots_on_target_home", "shots_on_target_away"}

\* calculate_match_features(match); [raised |-> ...] when the call raises
calculate_match_features(db, match) ==
    LET home_id == match.home_team_id
        away_id == match.away_team_id
        match_date == match.utc_date
    IN
    Bind([home_form |-> get_team_form(db, home_id, match_date, 5),
          away_form |-> get_team_form(db, away_id, match_date, 5),
          home_at_home |-> get_home_away_form(db, home_id, match_date, TRUE, 5),
          away_at_away |-> get_home_away_form(db, away_id, match_date, FALSE, 5),
          h2h |-> get_head_to_head(db, home_id, away_id, match_date, 10),
          home_season |->
              get_season_stats(db, home_id, match.competition_id, match.season, match_date),
          away_season |->
              get_season_stats(db, away_id, match.competition_id, match.season, match_date)],
         LAMBDA q :
    LET home_form == q.home_form
        away_form == q.away_form
        home_at_home == q.home_at_home
        away_at_away == q.away_at_away
        h2h == q.h2h
        home_season == q.home_season
        away_season == q.away_season
        features ==
            [match_id |-> match.id, home_team_id |-> home_id, away_team_id |-> away_id,
             match_date |-> match_date,
             home_form_points |-> home_form.avg_points,
             home_form_gf |-> home_form.avg_goals_for,
             home_form_ga |-> home_form.avg_goals_against,
             home_form_win_rate |-> home_form.win_rate,
             away_form_points |-> away_form.avg_points,
             away_form_gf |-> away_form.avg_goals_for,
             away_form_ga |-> away_form.avg_goals_against,
             away_form_win_rate |-> away_form.win_rate,
             home_at_home_points |-> home_at_home.avg_points,
             home_at_home_gf |-> home_at_home.avg_goals_for,
             home_at_home_ga |-> home_at_home.avg_goals_against,
             away_at_away_points |-> away_at_away.avg_points,
             away_at_away_gf |-> away_at_away.avg_goals_for,
             away_at_away_ga |-> away_at_away.avg_goals_against,
             h2h_matches |-> h2h.total_matches,
             h2h_home_wins |-> h2h.team1_wins,
             h2h_away_wins |-> h2h.team2_wins,
             h2h_draws |-> h2h.draws,
             h2h_home_win_rate |-> IF "team1_win_rate" \in DOMAIN h2h THEN h2h.team1_win_rate ELSE 0,
             h2h_avg_goals |-> h2h.avg_goals,
             home_season_ppg |-> home_season.ppg,
             home_season_gf |-> home_season.avg_goals_for,
             home_season_ga |-> home_season.avg_goals_against,
             home_season_clean_sheet_rate |-> home_season.clean_sheet_rate,
             home_season_btts_rate |-> home_season.btts_rate,
             home_season_over25_rate |-> home_season.over_25_rate,
             away_season_ppg |-> away_season.ppg,
             away_season_gf |-> away_season.avg_goals_for,
             away_season_ga |-> away_season.avg_goals_against,
             away_season_clean_sheet_rate |-> away_season.clean_sheet_rate,
             away_season_btts_rate |-> away_season.btts_rate,
             away_season_over25_rate |-> away_season.over_25_rate,
             form_diff |-> home_form.avg_points - away_form.avg_points,
             attack_strength_home |->
                 FDiv(home_form.avg_goals_for, Max(away_form.avg_goals_against, Fx(1, 10))),
             attack_strength_away |->
                 FDiv(away_form.avg_goals_for, Max(home_form.avg_goals_against, Fx(1, 10))),
             defense_strength_home |->
                 FDiv(home_form.avg_goals_against, Max(away_form.avg_goals_for, Fx(1, 10))),
             ppg_diff |-> home_season.ppg - away_season.ppg]
    IN  IF match.status = "FINISHED" /\ match.home_score # None
        THEN IF match.away_score = None
             THEN [raised |-> "TypeError"]      \* None > 2.5
             ELSE Merge(TargetLabels(match), features)
        ELSE features)

\* ------------------------- EnhancedFeatureEngineer (enhanced_features.py)
\* get_ultra_recent_form(team_id, before_date), is_home left at None
get_ultra_recent_form(db, team_id, before_date) ==
    Bind(Take(OrderByDateDesc({m \in Rows(db) :
                 Plays(m, team_id) /\ FinishedBefore(m, before_date)}), 3),
         LAMBDA ms :
    LET gf(m) == GoalsFor(m, team_id)
        ga(m) == GoalsAgainst(m, team_id)
        pt(m) == Points(gf(m), ga(m))
        points == SeqMap(pt, ms)
    IN  IF ms = <<>> THEN [points |-> 0, gf |-> 0, ga |-> 0, win_rate |-> 0]
        ELSE [points |-> Mean(points),
              gf |-> Mean(SeqMap(gf, ms)),
              ga |-> Mean(SeqMap(ga, ms)),
              win_rate |-> Ratio(Count(LAMBDA x : x = 3, points), Len(points))])

get_momentum(db, team_id, before_date) ==
    Bind(Take(OrderByDateDesc({m \in Rows(db) :
                 Plays(m, team_id) /\ FinishedBefore(m, before_date)}), 6),
         LAMBDA ms :
    LET gf(m) == GoalsFor(m, team_id)
        ga(m) == GoalsAgainst(m, team_id)
        pt(m) == Points(gf(m), ga(m))
        recent   == SubSeq(ms, 1, 3)
        previous == SubSeq(ms, 4, 6)
        momentum_points == Mean(SeqMap(pt, recent)) - Mean(SeqMap(pt, previous))
        momentum_goals  == Mean(SeqMap(gf, recent)) - Mean(SeqMap(gf, previous))
    IN  IF Len(ms) < 6
        THEN [momentum_points |-> 0, momentum_goals |-> 0, improving |-> 0]
        ELSE [momentum_points |-> momentum_points,
              momentum_goals |-> momentum_goals,
              improving |-> IF momentum_points > 0 THEN 1 ELSE 0])

get_advanced_stats(db, team_id, before_date, n_matches) ==
    Bind(Take(OrderByDateDesc({m \in Rows(db) :
                 /\ Plays(m, team_id) /\ FinishedBefore(m, before_date)
                 /\ m.corners_home # None}), n_matches),
         LAMBDA ms :
    LET own(m, h, a) == IF m.home_team_id = team_id THEN h ELSE a
        truthy(x) == ~Falsy(x)
        corners == SelectSeq(SeqMap(LAMBDA m : own(m, m.corners_home, m.corners_away), ms), truthy)
        shots == SelectSeq(SeqMap(LAMBDA m : own(m, m.shots_home, m.shots_away), ms), truthy)
        shots_on_target ==
            SelectSeq(SeqMap(LAMBDA m : own(m, m.shots_on_target_home, m.shots_on_target_away), ms),
                      truthy)
        goals == SeqMap(LAMBDA m : OrZero(own(m, m.home_score, m.away_score)), ms)
        total_shots == SumSeq(shots)
        total_sot   == SumSeq(shots_on_target)
        total_goals_ == SumSeq(goals)
    IN  IF ms = <<>>
        THEN [avg_corners |-> 0, avg_shots |-> 0, avg_shots_on_target |-> 0,
              conversion_rate |-> 0, shot_accuracy |-> 0]
        ELSE [avg_corners |-> IF corners # <<>> THEN Mean(corners) ELSE 0,
              avg_shots |-> IF shots # <<>> THEN Mean(shots) ELSE 0,
              avg_shots_on_target |->
                  IF shots_on_target # <<>> THEN Mean(shots_on_target) ELSE 0,
              conversion_rate |->
                  IF total_shots > 0 THEN Ratio(total_goals_, total_shots) * 100 ELSE 0,
              shot_accuracy |->
                  IF total_shots > 0 THEN Ratio(total_sot, total_shots) * 100 ELSE 0])

\* get_defensive_stats; the half-time average it also returns is not a feature
get_defensive_stats(db, team_id, before_date, n_matches) ==
    Bind(Take(OrderByDateDesc({m \in Rows(db) :
                 Plays(m, team_id) /\ FinishedBefore(m, before_date)}), n_matches),
         LAMBDA ms :
    LET clean_sheets == Count(LAMBDA m : GoalsAgainst(m, team_id) = 0, ms)
    IN  IF ms = <<>> THEN [clean_sheets |-> 0]
        ELSE [clean_sheets |-> Ratio(clean_sheets, Len(ms))])

get_season_home_away_split(db, team_id, competition_id, season, before_date) ==
    LET inSeason(m) == /\ m.competition_id = competition_id /\ m.season = season
                       /\ FinishedBefore(m, before_date)
    IN
    Bind([home |-> {m \in Rows(db) : m.home_team_id = team_id /\ inSeason(m)},
          away |-> {m \in Rows(db) : m.away_team_id = team_id /\ inSeason(m)}],
         LAMBDA qs :
    LET home_matches == qs.home
        away_matches == qs.away
        home_count == Cardinality(home_matches)
        away_count == Cardinality(away_matches)
        hgf(m) == OrZero(m.home_score)
        hga(m) == OrZero(m.away_score)
        agf(m) == OrZero(m.away_score)
        aga(m) == OrZero(m.home_score)
        H(P(_)) == Cardinality({m \in home_matches : P(m)})
        A(P(_)) == Cardinality({m \in away_matches : P(m)})
        home_gf == SumSeq(SeqMap(hgf, OrderByDateDesc(home_matches)))
        home_ga == SumSeq(SeqMap(hga, OrderByDateDesc(home_matches)))
        away_gf == SumSeq(SeqMap(agf, OrderByDateDesc(away_matches)))
        away_ga == SumSeq(SeqMap(aga, OrderByDateDesc(away_matches)))
        hr(x) == IF home_count > 0 THEN Ratio(x, home_count) ELSE 0
        ar(x) == IF away_count > 0 THEN Ratio(x, away_count) ELSE 0
    IN  [home_matches |-> home_count,
         home_ppg |-> hr(H(LAMBDA m : hgf(m) > hga(m)) * 3 + H(LAMBDA m : hgf(m) = hga(m))),
         home_win_rate |-> hr(H(LAMBDA m : hgf(m) > hga(m))),
         home_avg_gf |-> hr(home_gf),
         home_avg_ga |-> hr(home_ga),
         home_clean_sheet_rate |-> hr(H(LAMBDA m : hga(m) = 0)),
         home_btts_rate |-> hr(H(LAMBDA m : hgf(m) > 0 /\ hga(m) > 0)),
         home_over25_rate |-> hr(H(LAMBDA m : hgf(m) + hga(m) > 2)),
         away_matches |-> away_count,
         away_ppg |-> ar(A(LAMBDA m : agf(m) > aga(m)) * 3 + A(LAMBDA m : agf(m) = aga(m))),
         away_win_rate |-> ar(A(LAMBDA m : agf(m) > aga(m))),
         away_avg_gf |-> ar(away_gf),
         away_avg_ga |-> ar(away_ga),
         away_clean_sheet_rate |-> ar(A(LAMBDA m : aga(m) = 0)),
         away_btts_rate |-> ar(A(LAMBDA m : agf(m) > 0 /\ aga(m) > 0)),
         away_over25_rate |-> ar(A(LAMBDA m : agf(m) + aga(m) > 2))])

get_h2h_advanced(db, team1_id, team2_id, before_date) ==
    Bind(Take(OrderByDateDesc({m \in Rows(db) :
                 /\ \/ m.home_team_id = team1_id /\ m.away_team_id = team2_id
                    \/ m.home_team_id = team2_id /\ m.away_team_id = team1_id
                 /\ FinishedBefore(m, before_date)}), 10),
         LAMBDA ms :
    LET t1(m) == GoalsFor(m, team1_id)
        t2(m) == GoalsAgainst(m, team1_id)
        n == Len(ms)
    IN  IF ms = <<>>
        THEN [h2h_btts_rate |-> 0, h2h_over25_rate |-> 0, h2h_high_scoring |-> 0]
        ELSE [h2h_btts_rate |-> Ratio(Count(LAMBDA m : t1(m) > 0 /\ t2(m) > 0, ms), n),
              h2h_over25_rate |-> Ratio(Count(LAMBDA m : t1(m) + t2(m) > 2, ms), n),
              h2h_high_scoring |-> Ratio(Count(LAMBDA m : t1(m) + t2(m) > 3, ms), n)])

\* calculate_enhanced_features(match): the base features and the added ones
calculate_enhanced_features(db, match) ==
    LET home_id == match.home_team_id
        away_id == match.away_team_id
        match_date == match.utc_date
    IN
    Bind([features |-> calculate_match_features(db, match),
          home_ultra_recent |-> get_ultra_recent_form(db, home_id, match_date),
          away_ultra_recent |-> get_ultra_recent_form(db, away_id, match_date),
          home_momentum |-> get_momentum(db, home_id, match_date),
          away_momentum |-> get_momentum(db, away_id, match_date),
          home_advanced |-> get_advanced_stats(db, home_id, match_date, 5),
          away_advanced |-> get_advanced_stats(db, away_id, match_date, 5),
          home_defense |-> get_defensive_stats(db, home_id, match_date, 5),
          away_defense |-> get_defensive_stats(db, away_id, match_date, 5),
          home_season_split |->
              get_season_home_away_split(db, home_id, match.competition_id, match.season,
                                         match_date),
          away_season_split |->
              get_season_home_away_split(db, away_id, match.competition_id, match.season,
                                         match_date),
          h2h_advanced |-> get_h2h_advanced(db, home_id, away_id, match_date)],
         LAMBDA q :
    LET features == q.features
        home_ultra_recent == q.home_ultra_recent
        away_ultra_recent == q.away_ultra_recent
        home_momentum == q.home_momentum
        away_momentum == q.away_momentum
        home_advanced == q.home_advanced
        away_advanced == q.away_advanced
        home_defense == q.home_defense
        away_defense == q.away_defense
        home_season_split == q.home_season_split
        away_season_split == q.away_season_split
        h2h_advanced == q.h2h_advanced
        home_ppg == Max(features.home_season_ppg, Fx(1, 100))
        away_ppg == Max(features.away_season_ppg, Fx(1, 100))
        \* (a + b) / 2
        expected_home_goals == RoundDiv(features.home_form_gf + features.away_form_ga, 2)
        expected_away_goals == RoundDiv(features.away_form_gf + features.home_form_ga, 2)
        added ==
            [home_ultra_recent_points |-> home_ultra_recent.points,
             home_ultra_recent_gf |-> home_ultra_recent.gf,
             home_ultra_recent_ga |-> home_ultra_recent.ga,
             away_ultra_recent_points |-> away_ultra_recent.points,
             away_ultra_recent_gf |-> away_ultra_recent.gf,
             away_ultra_recent_ga |-> away_ultra_recent.ga,
             home_momentum_points |-> home_momentum.momentum_points,
             home_momentum_goals |-> home_momentum.momentum_goals,
             home_improving |-> home_momentum.improving,
             away_momentum_points |-> away_momentum.momentum_points,
             away_momentum_goals |-> away_momentum.momentum_goals,
             away_improving |-> away_momentum.improving,
             home_avg_corners |-> home_advanced.avg_corners,
             home_avg_shots |-> home_advanced.avg_shots,
             home_conversion_rate |-> home_advanced.conversion_rate,
             home_shot_accuracy |-> home_advanced.shot_accuracy,
             away_avg_corners |-> away_advanced.avg_corners,
             away_avg_shots |-> away_advanced.avg_shots,
             away_conversion_rate |-> away_advanced.conversion_rate,
             away_shot_accuracy |-> away_advanced.shot_accuracy,
             home_clean_sheets_rate |-> home_defense.clean_sheets,
             away_clean_sheets_rate |-> away_defense.clean_sheets,
             momentum_diff |-> home_momentum.momentum_points - away_momentum.momentum_points,
             ultra_recent_form_diff |-> home_ultra_recent.points - away_ultra_recent.points,
             shot_efficiency_diff |->
                 home_advanced.conversion_rate - away_advanced.conversion_rate,
             home_season_home_ppg |-> home_season_split.home_ppg,
             home_season_home_win_rate |-> home_season_split.home_win_rate,
             home_season_home_avg_gf |-> home_season_split.home_avg_gf,
             home_season_home_avg_ga |-> home_season_split.home_avg_ga,
             home_season_home_clean_sheet_rate |-> home_season_split.home_clean_sheet_rate,
             home_season_home_btts_rate |-> home_season_split.home_btts_rate,
             home_season_home_over25_rate |-> home_season_split.home_over25_rate,
             away_season_away_ppg |-> away_season_split.away_ppg,
             away_season_away_win_rate |-> away_season_split.away_win_rate,
             away_season_away_avg_gf |-> away_season_split.away_avg_gf,
             away_season_away_avg_ga |-> away_season_split.away_avg_ga,
             away_season_away_clean_sheet_rate |-> away_season_split.away_clean_sheet_rate,
             away_season_away_btts_rate |-> away_season_split.away_btts_rate,
             away_season_away_over25_rate |-> away_season_split.away_over25_rate,
             h2h_btts_rate |-> h2h_advanced.h2h_btts_rate,
             h2h_over25_rate |-> h2h_advanced.h2h_over25_rate,
             h2h_high_scoring_rate |-> h2h_advanced.h2h_high_scoring,
             venue_ppg_diff |-> home_season_split.home_ppg - away_season_split.away_ppg,
             venue_gf_diff |-> home_season_split.home_avg_gf - away_season_split.away_avg_gf,
             venue_ga_diff |-> home_season_split.home_avg_ga - away_season_split.away_avg_ga,
             both_high_btts |->
                 IF home_season_split.home_btts_rate > Fx(1, 2)
                    /\ away_season_split.away_btts_rate > Fx(1, 2) THEN 1 ELSE 0,
             both_high_over25 |->
                 IF home_season_split.home_over25_rate > Fx(1, 2)
                    /\ away_season_split.away_over25_rate > Fx(1, 2) THEN 1 ELSE 0,
             home_form_x_attack |-> FMul(features.home_form_points, features.home_form_gf),
             away_form_x_attack |-> FMul(features.away_form_points, features.away_form_gf),
             home_strength_index |-> FMul(features.home_season_ppg, features.home_season_gf),
             away_strength_index |-> FMul(features.away_season_ppg, features.away_season_gf),
             combined_btts_probability |->
                 FMul(features.home_season_btts_rate, features.away_season_btts_rate),
             combined_over25_probability |->
                 FMul(features.home_season_over25_rate, features.away_season_over25_rate),
             home_form_venue_boost |->
                 FMul(home_ultra_recent.points, home_season_split.home_win_rate),
             away_form_venue_penalty |->
                 FMul(away_ultra_recent.points, One - away_season_split.away_win_rate),
             quality_ratio |-> FDiv(home_ppg, away_ppg),
             expected_total_goals |-> expected_home_goals + expected_away_goals,
             expected_goal_diff |-> expected_home_goals - expected_away_goals]
    IN  IF "raised" \in DOMAIN features THEN features ELSE Merge(added, features))

\* ------------------------------- specification: the feature engineer's reads
\* the Match object handed to calculate_enhanced_features for fixture i: the
\* stored row, or the unsaved SCHEDULED object EnhancedPredictor.predict_match builds
TempMatch(i) == Merge([Fixture(i) EXCEPT !.id = None], NotPlayed)

NoCall == [op |-> "none"]

\* an empty Match table, no call in progress
InitFE ==
    /\ args = NoCall
    /\ ret = NoRet
    /\ IdleDb

\* a match is imported (Match.objects.create / update_or_create)
CreateMatch(i, c) ==
    /\ args = NoCall
    /\ i \notin DOMAIN matches
    /\ matches' = [j \in DOMAIN matches \cup {i} |->
                      IF j = i THEN Row(i, c) ELSE matches[j]]
    /\ UNCHANGED <<args, ret, poisson_params, models, feature_columns, predictions, elo_ratings, import_jobs, threads>>

\* its status, scores or statistics are updated
UpdateMatch(i, c) ==
    /\ args = NoCall
    /\ i \in DOMAIN matches
    /\ matches[i] # Row(i, c)
    /\ matches' = [matches EXCEPT ![i] = Row(i, c)]
    /\ UNCHANGED <<args, ret, poisson_params, models, feature_columns, predictions, elo_ratings, import_jobs, threads>>

\* it is deleted, and with it its predictions (on_delete=CASCADE)
DeleteMatch(i) ==
    /\ args = NoCall
    /\ i \in DOMAIN matches
    /\ matches' = [j \in DOMAIN matches \ {i} |-> matches[j]]
    /\ predictions' = {r \in predictions : r.match # i}
    /\ UNCHANGED <<args, ret, poisson_params, models, feature_columns, elo_ratings, import_jobs, threads>>

\* calculate_enhanced_features(match) is called for a stored match (training)
\* or for the unsaved match of a prediction
CalculateEnhancedFeatures(match) ==
    /\ args = NoCall
    /\ args' = [op |-> "calculate_enhanced_features", match |-> match]
    /\ ret' = Bind(calculate_enhanced_features(matches, match),
                    LAMBDA features :
                        IF "raised" \in DOMAIN features THEN [status |-> features.raised]
                        ELSE [status |-> "ok", value |-> features])
    /\ UNCHANGED <<matches, poisson_params, models, feature_columns, predictions, elo_ratings, import_jobs, threads>>

\* the caller has used the returned dict
ReturnToCaller ==
    /\ args # NoCall
    /\ args' = NoCall
    /\ ret' = NoRet
    /\ UNCHANGED <<matches, poisson_params, models, feature_columns, predictions, elo_ratings, import_jobs, threads>>

NextFE ==
    \/ \E i \in MatchIds, c \in RowContents : CreateMatch(i, c)
    \/ \E i \in MatchIds, c \in RowContents : UpdateMatch(i, c)
    \/ \E i \in MatchIds : DeleteMatch(i)
    \/ \E i \in DOMAIN matches : CalculateEnhancedFeatures(matches[i])
    \/ \E i \in MatchIds : CalculateEnhancedFeatures(TempMatch(i))
    \/ ReturnToCaller
SpecFE == InitFE /\ [][NextFE]_vars

\* a returned dict without the target's own outcome labels
WithoutLabels(features) == [k \in DOMAIN features \ LabelKeys |-> features[k]]
\* the table without the matches dated on or after a kickoff
HistoryBefore(db, date) == [i \in {j \in DOMAIN db : db[j].utc_date < date} |-> db[i]]
\* the same fixture with the columns a mutation can change still empty
Unplayed(match) == [TempMatch(match.utc_date) EXCEPT !.id = match.id]

\* C3 (as stated): whatever was created, updated or deleted among the matches
\* dated on or after the target's kickoff (the target included), every value
\* calculate_enhanced_features returns for the target is the one it returns
\* with none of them played: only FINISHED matches before the kickoff count.
C3_LaterMatchesChangeNoValue ==
    (args # NoCall /\ ret.status = "ok") =>
        ret.value = calculate_enhanced_features(
                        HistoryBefore(matches, args.match.utc_date), Unplayed(args.match))

\* C3 (amended): every feature and identifier returned for the target is the
\* one returned with no match dated on or after its kickoff played; the only
\* entries that depend on such a match are the target's own outcome labels
\* (result, goals, btts, over_25, corners, shots), copied from the target.
C3_LaterMatchesChangeNoFeature ==
    (args # NoCall /\ ret.status = "ok") =>
        /\ WithoutLabels(ret.value)
              = calculate_enhanced_features(
                    HistoryBefore(matches, args.match.utc_date), Unplayed(args.match))
        /\ \A k \in DOMAIN ret.value \cap LabelKeys :
              ret.value[k] = TargetLabels(args.match)[k]

\* features were computed for a match with earlier history while a later
\* played match of its home team was in the table
C3_Witness ==
    /\ args # NoCall
    /\ ret.status = "ok"
    /\ ret.value.home_form_points > 0
    /\ \E j \in DOMAIN matches :
          /\ matches[j].utc_date >= args.match.utc_date
          /\ matches[j].id # args.match.id
          /\ matches[j].status = "FINISHED"
          /\ Plays(matches[j], args.match.home_team_id)

\* ------------------------------------- EnhancedPredictor (predictor.py)
\* the markets the ensemble reads; the corner and shot models of self.models
\* are loaded and applied the same way and are left out
Markets == {"result", "over_25", "btts"}

\* the class attribute ENHANCED_FEATURE_COLUMNS
ENHANCED_FEATURE_COLUMNS ==
    <<"home_form_points", "home_form_gf", "home_form_ga", "home_form_win_rate",
      "away_form_points", "away_form_gf", "away_form_ga", "away_form_win_rate",
      "home_at_home_points", "home_at_home_gf", "home_at_home_ga",
      "away_at_away_points", "away_at_away_gf", "away_at_away_ga",
      "home_season_home_ppg", "home_season_home_avg_gf", "home_season_home_avg_ga",
      "home_season_home_btts_rate", "home_season_home_over25_rate",
      "away_season_away_ppg", "away_season_away_avg_gf", "away_season_away_avg_ga",
      "away_season_away_btts_rate", "away_season_away_over25_rate",
      "h2h_matches", "h2h_home_win_rate", "h2h_btts_rate", "h2h_over25_rate",
      "home_avg_corners", "away_avg_corners", "home_avg_shots", "away_avg_shots",
      "expected_total_goals">>

\* X = np.array([[features.get(col, 0) for col in self.ENHANCED_FEATURE_COLUMNS]])
BuildX(columns, features) ==
    [i \in 1..Len(columns) |->
        IF columns[i] \in DOMAIN features THEN features[columns[i]] ELSE 0]
\* the columns for which features.get falls back to its default
DefaultedColumns(columns, features) ==
    {columns[i] : i \in 1..Len(columns)} \ DOMAIN features

\* EnhancedPredictor.predict_match: proba is what the fitted models return for
\* X; a market is predicted only when its model is loaded
ml_predict_match(db, loaded, columns, match, proba) ==
    Bind(calculate_enhanced_features(db, match),
         LAMBDA features :
             [predictions |-> [m \in {k \in Markets : loaded[k]} |-> proba[m]],
              X |-> BuildX(columns, features),
              defaulted |-> DefaultedColumns(columns, features)])

\* ----------------------------------------- EnsemblePredictor (ensemble.py)
\* PoissonParams.objects.get(team=..., competition=..., season=...)
ParamsOf(params, team, competition, season) ==
    {r \in params : r.team = team /\ r.competition = competition /\ r.season = season}

\* _predict_poisson(match): None when a row is missing, else the goal model's
\* markets for the two rows (goal_model_out)
_predict_poisson(params, match, goal_model_out) ==
    IF \/ ParamsOf(params, match.home_team_id, match.competition_id, match.season) = {}
       \/ ParamsOf(params, match.away_team_id, match.competition_id, match.season) = {}
    THEN NoneRec
    ELSE goal_model_out

\* a tie-break that prefers the last maximum (away, then draw, then home)
MostLikelyLast(p) ==
    IF p.prob_away >= p.prob_draw /\ p.prob_away >= p.prob_home THEN "away"
    ELSE IF p.prob_draw >= p.prob_home THEN "draw"
    ELSE "home"

\* max(('home', h), ('draw', d), ('away', a), key=...)[0]: the first maximum
MostLikely(p) ==
    IF p.prob_home >= p.prob_draw /\ p.prob_home >= p.prob_away THEN "home"
    ELSE IF p.prob_draw >= p.prob_away THEN "draw"
    ELSE "away"
MaxProb(p) == Max(p.prob_home, Max(p.prob_draw, p.prob_away))

_calculate_confidence(ml_pred, poisson_pred) ==
    LET base == IF MostLikely(ml_pred) = MostLikely(poisson_pred) THEN 50 ELSE 30
        avg_max_prob == RoundDiv(MaxProb(ml_pred) + MaxProb(poisson_pred), 2)
        \* int((avg_max_prob - 0.5) * 60)
        clear == IF avg_max_prob > Fx(1, 2)
                 THEN ((avg_max_prob - Fx(1, 2)) * 60) \div Scale ELSE 0
        avg_diff == RoundDiv(Abs(ml_pred.prob_home - poisson_pred.prob_home)
                             + Abs(ml_pred.prob_draw - poisson_pred.prob_draw)
                             + Abs(ml_pred.prob_away - poisson_pred.prob_away), 3)
        coherent == IF avg_diff < Fx(1, 10) THEN 20
                    ELSE IF avg_diff < Fx(2, 10) THEN 10 ELSE 0
    IN  Min(base + clear + coherent, 100)

\* EnsemblePredictor.predict_match(match)
predict_match(db, params, loaded, columns, match, proba, goal_model_out) ==
    Bind(ml_predict_match(db, loaded, columns, TempMatch(match.id), proba).predictions,
         LAMBDA ml_prediction :
    LET ml_flat == [prob_home    |-> ml_prediction.result.home_win,
                    prob_draw    |-> ml_prediction.result.draw,
                    prob_away    |-> ml_prediction.result.away_win,
                    prob_over_25 |-> ml_prediction.over_25.yes,
                    prob_btts    |-> ml_prediction.btts.yes]
        poisson_prediction == _predict_poisson(params, match, goal_model_out)
        combined == _combine_predictions(ml_flat, poisson_prediction)
    IN  IF DOMAIN ml_prediction # Markets THEN [status |-> "KeyError"]
        ELSE IF poisson_prediction = NoneRec
        THEN Merge([status |-> "ok", method |-> "ml_only", confidence |-> 60,
                    ml_probs |-> ml_flat, poisson_probs |-> NoneRec], ml_flat)
        ELSE IF combined.status # "ok" THEN combined
        ELSE Merge([method |-> "ensemble",
                    confidence |-> _calculate_confidence(ml_flat, poisson_prediction),
                    ml_probs |-> ml_flat,
                    poisson_probs |-> poisson_prediction,
                    lambda_home |-> poisson_prediction.lambda_home,
                    lambda_away |-> poisson_prediction.lambda_away], combined))

\* ------------------------------------------- specification: the predictor
\* the matches predicted, the teams and seasons with Poisson parameters
PredictedFixtures == {2, 3}
ParamKeys == {<<1, 2024>>, <<2, 2024>>, <<1, 2023>>}
\* what the fitted classifiers return
MLOutputs ==
    {[result  |-> [home_win |-> Fx(6, 10), draw |-> Fx(3, 10), away_win |-> Fx(1, 10),
                   most_likely |-> "H"],
      over_25 |-> [no |-> Fx(4, 10), yes |-> Fx(6, 10)],
      btts    |-> [no |-> Fx(5, 10), yes |-> Fx(5, 10)]],
     [result  |-> [home_win |-> Fx(2, 10), draw |-> Fx(3, 10), away_win |-> Fx(5, 10),
                   most_likely |-> "A"],
      over_25 |-> [no |-> Fx(7, 10), yes |-> Fx(3, 10)],
      btts    |-> [no |-> Fx(6, 10), yes |-> Fx(4, 10)]]}
\* what the goal model returns
GoalModelOutputs ==
    {[prob_home |-> Fx(5, 10), prob_draw |-> Fx(3, 10), prob_away |-> Fx(2, 10),
      prob_over_25 |-> Fx(55, 100), prob_btts |-> Fx(5, 10),
      lambda_home |-> Fx(16, 10), lambda_away |-> Fx(11, 10),
      expected_total_goals |-> Fx(27, 10)],
     [prob_home |-> Fx(1, 10), prob_draw |-> Fx(2, 10), prob_away |-> Fx(7, 10),
      prob_over_25 |-> Fx(6, 10), prob_btts |-> Fx(45, 100),
      lambda_home |-> Fx(8, 10), lambda_away |-> Fx(21, 10),
      expected_total_goals |-> Fx(29, 10)]}
\* feature_columns lists an artifact can carry: the class list, the class list
\* with two columns exchanged, and a list with an Elo column of an older training
SwappedColumns ==
    [i \in 1..Len(ENHANCED_FEATURE_COLUMNS) |->
        IF i = 1 THEN ENHANCED_FEATURE_COLUMNS[2]
        ELSE IF i = 2 THEN ENHANCED_FEATURE_COLUMNS[1]
        ELSE ENHANCED_FEATURE_COLUMNS[i]]
ArtifactColumns ==
    {ENHANCED_FEATURE_COLUMNS, SwappedColumns, Append(ENHANCED_FEATURE_COLUMNS, "elo_diff")}
\* the pickled dict read by load_models
Artifacts == [models : [Markets -> BOOLEAN], feature_columns : ArtifactColumns]

\* EnhancedPredictor.__init__: no model loaded, the class column list
Init ==
    /\ models = [m \in Markets |-> FALSE]
    /\ feature_columns = ENHANCED_FEATURE_COLUMNS
    /\ poisson_params = {}
    /\ matches = <<>>
    /\ predictions = {}
    /\ elo_ratings = {}
    /\ import_jobs = {}
    /\ threads = NoThreads
    /\ args = NoCall
    /\ ret = NoRet

\* EnhancedPredictor.load_models(path), data being the unpickled artifact
LoadModels(data) ==
    /\ models' = data.models
    /\ feature_columns' = data.feature_columns
    /\ args' = [op |-> "load_models", data |-> data]
    /\ ret' = [status |-> "ok"]
    /\ UNCHANGED <<poisson_params, matches, predictions, elo_ratings, import_jobs, threads>>

\* calculate_poisson_params: PoissonParams.objects.update_or_create(...)
UpdateOrCreateParams(team, season) ==
    /\ poisson_params' =
          (poisson_params \ ParamsOf(poisson_params, team, 1, season))
          \cup {[team |-> team, competition |-> 1, season |-> season,
                 attack_strength |-> One, defense_strength |-> One]}
    /\ args' = [op |-> "update_or_create", team |-> team, season |-> season]
    /\ ret' = [status |-> "ok"]
    /\ UNCHANGED <<models, feature_columns, matches, predictions, elo_ratings, import_jobs, threads>>

\* calculate_poisson_params --force: PoissonParams.objects.all().delete()
DeleteAllParams ==
    /\ poisson_params # {}
    /\ poisson_params' = {}
    /\ args' = [op |-> "delete_params"]
    /\ ret' = [status |-> "ok"]
    /\ UNCHANGED <<models, feature_columns, matches, predictions, elo_ratings, import_jobs, threads>>

\* EnhancedPredictor.predict_match(...) called by the predict command (method ml)
MLPredictMatch(i, proba) ==
    /\ args' = [op |-> "ml_predict_match", match |-> Fixture(i), proba |-> proba]
    /\ ret' = Merge([status |-> "ok"],
                     ml_predict_match(matches, models, feature_columns, TempMatch(i), proba))
    /\ UNCHANGED <<poisson_params, models, feature_columns, matches, predictions, elo_ratings, import_jobs, threads>>

\* EnsemblePredictor.predict_match(match)
PredictMatch(i, proba, goal_model_out) ==
    /\ args' = [op |-> "predict_match", match |-> Fixture(i), proba |-> proba,
                goal_model_out |-> goal_model_out]
    /\ ret' = predict_match(matches, poisson_params, models, feature_columns,
                            Fixture(i), proba, goal_model_out)
    /\ UNCHANGED <<poisson_params, models, feature_columns, matches, predictions, elo_ratings, import_jobs, threads>>

Next ==
    \/ \E data \in Artifacts : LoadModels(data)
    \/ \E k \in ParamKeys : UpdateOrCreateParams(k[1], k[2])
    \/ DeleteAllParams
    \/ \E i \in PredictedFixtures, proba \in MLOutputs : MLPredictMatch(i, proba)
    \/ \E i \in PredictedFixtures, proba \in MLOutputs, g \in GoalModelOutputs :
          PredictMatch(i, proba, g)
Spec == Init /\ [][Next]_vars

HasParams(team) ==
    ParamsOf(poisson_params, team, args.match.competition_id, args.match.season) # {}
MLFlat(proba) ==
    [prob_home |-> proba.result.home_win, prob_draw |-> proba.result.draw,
     prob_away |-> proba.result.away_win, prob_over_25 |-> proba.over_25.yes,
     prob_btts |-> proba.btts.yes]

\* C2: when the PoissonParams row of the match's competition and season is
\* missing for the home team, the away team or both, predict_match raises
\* nothing and returns method ml_only, confidence 60, poisson_probs None and
\* the ML predictor's result, over-2.5 and BTTS probabilities; it returns
\* method ensemble only when both rows exist.
C2_MlOnlyWhenParamsMissing ==
    (args.op = "predict_match") =>
        /\ (~HasParams(args.match.home_team_id) \/ ~HasParams(args.match.away_team_id)) =>
              /\ ret.status = "ok"
              /\ ret.method = "ml_only"
              /\ ret.confidence = 60
              /\ ret.poisson_probs = NoneRec
              /\ ret.ml_probs = MLFlat(args.proba)
              /\ \A k \in DOMAIN MLFlat(args.proba) : ret[k] = MLFlat(args.proba)[k]
        /\ (ret.status = "ok" /\ ret.method = "ensemble") =>
              (HasParams(args.match.home_team_id) /\ HasParams(args.match.away_team_id))

\* C9: load_models raises whenever the artifact's feature_columns differ in
\* content or order from ENHANCED_FEATURE_COLUMNS, the predictor never works
\* with another list than its own, and inference never fills a column the
\* feature engineer did not produce with a default.
C9_LoadFailsOnColumnMismatch ==
    /\ (args.op = "load_models" /\ args.data.feature_columns # ENHANCED_FEATURE_COLUMNS) =>
          ret.status # "ok"
    /\ feature_columns = ENHANCED_FEATURE_COLUMNS
    /\ (args.op = "ml_predict_match") => ret.defaulted = {}

\* C10: when the loaded artifact has the result model but lacks the over_25
\* or the btts model, predict_match still returns the probabilities of the
\* available markets instead of failing.
C10_PartialResults ==
    (args.op = "predict_match" /\ models["result"] /\ \E m \in Markets : ~models[m]) =>
        /\ ret.status = "ok"
        /\ ret.ml_probs.prob_home = args.proba.result.home_win
        /\ ret.ml_probs.prob_draw = args.proba.result.draw
        /\ ret.ml_probs.prob_away = args.proba.result.away_win

\* ------------------------------------- specification: _calculate_confidence
ConfGrid == 5      \* probabilities fed to _calculate_confidence: k / ConfGrid

ConfProbs == {Fx(k, ConfGrid) : k \in 0..ConfGrid}
\* the result triple of a prediction dict
ResultTriples == [prob_home : ConfProbs, prob_draw : ConfProbs, prob_away : ConfProbs]

InitConfidence ==
    /\ args \in [op : {"_calculate_confidence"},
                 ml_pred : ResultTriples, poisson_pred : ResultTriples]
    /\ ret = NoRet
    /\ IdleDb

CalculateConfidence ==
    /\ args.op = "_calculate_confidence"
    /\ ret = NoRet
    /\ ret' = [status |-> "ok",
               value |-> _calculate_confidence(args.ml_pred, args.poisson_pred)]
    /\ UNCHANGED <<args, poisson_params, models, feature_columns, matches, predictions, elo_ratings, import_jobs, threads>>

NextConfidence == CalculateConfidence
SpecConfidence == InitConfidence /\ [][NextConfidence]_vars

\* the most likely outcome of a triple, ties resolved home, then draw, then away
TopOutcome(p) ==
    LET v == [o \in OutcomeSet |-> p["prob_" \o o]]
        top(i) == \A j \in 1..3 : v[Outcomes[i]] >= v[Outcomes[j]]
    IN  Outcomes[CHOOSE i \in 1..3 : top(i) /\ \A j \in 1..(i - 1) : ~top(j)]
TopProb(p) == CHOOSE x \in {p.prob_home, p.prob_draw, p.prob_away} :
                  \A y \in {p.prob_home, p.prob_draw, p.prob_away} : x >= y
\* int(x) of a non-negative number
IntPart(x) == x \div Scale
ClarityBonus(a, b) ==
    LET avg_top == RoundDiv(TopProb(a) + TopProb(b), 2)
    IN  IF avg_top > Fx(1, 2) THEN IntPart((avg_top - Fx(1, 2)) * 60) ELSE 0
MeanAbsDiff(a, b) ==
    RoundDiv(Abs(a.prob_home - b.prob_home) + Abs(a.prob_draw - b.prob_draw)
             + Abs(a.prob_away - b.prob_away), 3)
CoherenceBonus(a, b) ==
    IF MeanAbsDiff(a, b) < Fx(10, 100) THEN 20
    ELSE IF MeanAbsDiff(a, b) < Fx(20, 100) THEN 10 ELSE 0

\* C11: for every pair of result triples with values in [0,1],
\* _calculate_confidence returns an integer in [0,100] equal to base 50 when
\* the two most-likely outcomes coincide (ties resolved home, draw, away)
\* else 30, plus int((avg_top - 0.5) * 60), at most 30, when the average of
\* the two top probabilities exceeds 0.5, plus 20 when the mean absolute
\* difference of the triples is below 0.10, else 10 when below 0.20, capped
\* at 100.
C11_ConfidenceFormula ==
    (args.op = "_calculate_confidence" /\ ret # NoRet) =>
        LET a == args.ml_pred
            b == args.poisson_pred
            base == IF TopOutcome(a) = TopOutcome(b) THEN 50 ELSE 30
            total == base + ClarityBonus(a, b) + CoherenceBonus(a, b)
        IN  /\ ret.value \in 0..100
            /\ ClarityBonus(a, b) \in 0..30
            /\ ret.value = IF total > 100 THEN 100 ELSE total

\* a tie between home and draw in the ML triple resolved to home, which the
\* GoalModel also predicts, with a clarity bonus and the smaller coherence bonus
C11_Witness ==
    /\ args.op = "_calculate_confidence"
    /\ ret # NoRet
    /\ args.ml_pred.prob_home = args.ml_pred.prob_draw
    /\ args.ml_pred.prob_home > args.ml_pred.prob_away
    /\ TopOutcome(args.poisson_pred) = "home"
    /\ args.poisson_pred.prob_home > args.poisson_pred.prob_draw
    /\ ClarityBonus(args.ml_pred, args.poisson_pred) > 0
    /\ CoherenceBonus(args.ml_pred, args.poisson_pred) = 10
    /\ ret.value = 60 + ClarityBonus(args.ml_pred, args.poisson_pred)

\* ------------------------------------------------- specification: grade_bet
MaxEdge == 120     \* edges fed to grade_bet: -MaxEdge / Scale .. MaxEdge / Scale

Edges == (-MaxEdge)..MaxEdge

InitGrade ==
    /\ args \in [op : {"grade_bet"}, edge : Edges]
    /\ ret = NoRet
    /\ IdleDb

GradeBet ==
    /\ args.op = "grade_bet"
    /\ ret = NoRet
    /\ ret' = [status |-> "ok", grade |-> grade_bet(args.edge)]
    /\ UNCHANGED <<args, poisson_params, models, feature_columns, matches, predictions, elo_ratings, import_jobs, threads>>

NextGrade == GradeBet
SpecGrade == InitGrade /\ [][NextGrade]_vars

\* the grades from worst to best
GradeRank(g) ==
    CHOOSE i \in 1..6 : <<"F", "D", "C", "B", "A", "A+">>[i] = g

\* C12: grade_bet is a pure threshold function of the edge: A+ above 0.10,
\* A in (0.07, 0.10], B in (0.05, 0.07], C in (0.03, 0.05], D in (0.02, 0.03],
\* F otherwise; and a larger edge never yields a worse grade.
C12_GradeLadder ==
    (args.op = "grade_bet" /\ ret # NoRet) =>
        LET e == args.edge
        IN  /\ (ret.grade = "A+") <=> (e > Fx(10, 100))
            /\ (ret.grade = "A") <=> (Fx(7, 100) < e /\ e <= Fx(10, 100))
            /\ (ret.grade = "B") <=> (Fx(5, 100) < e /\ e <= Fx(7, 100))
            /\ (ret.grade = "C") <=> (Fx(3, 100) < e /\ e <= Fx(5, 100))
            /\ (ret.grade = "D") <=> (Fx(2, 100) < e /\ e <= Fx(3, 100))
            /\ (ret.grade = "F") <=> (e <= Fx(2, 100))
            /\ \A larger \in Edges :
                  larger >= e => GradeRank(grade_bet(larger)) >= GradeRank(ret.grade)

\* an edge on a step boundary: exactly 0.07 is graded B, not A
C12_Witness ==
    /\ args.op = "grade_bet"
    /\ args.edge = Fx(7, 100)
    /\ ret # NoRet
    /\ ret.grade = "B"

\* ---------------- specification: calculate_poisson_params (management command)
NumParamFixtures == 4   \* fixtures of the table the command reads
MaxMinMatches == 3      \* --min-matches: 1 .. MaxMinMatches

ParamFixtureIds == 1..NumParamFixtures
\* a finished match whose scores were never filled in, and one with scores
FinishedNoScore == [NotPlayed EXCEPT !.status = "FINISHED"]
FinishedScored == CHOOSE c \in RowContents : c.home_score = 2
ParamRowContents == {NotPlayed, FinishedNoScore, FinishedScored}
MinMatchesOptions == 1..MaxMinMatches

\* the float nan: np.float64(0.0) / np.float64(0.0)
NaN == -999999999
\* max(avg / league_avg, 0.3); the averages are np.float64, whose 0 / 0 is nan
\* (a warning, no exception), and max(nan, 0.3) is nan
FloorStrength(avg, league_avg) ==
    IF league_avg = 0 THEN NaN ELSE Max(FDiv(avg, league_avg), Fx(3, 10))

\* poisson.estimate_team_strengths(matches)['teams']
estimate_team_strengths(ms) ==
    LET teams == {m.home_team_id : m \in ms} \cup {m.away_team_id : m \in ms}
        seq == OrderByDateDesc(ms)
        all_goals == SeqMap(LAMBDA m : m.home_score, seq)
                     \o SeqMap(LAMBDA m : m.away_score, seq)
        league_avg == IF all_goals = <<>> THEN Fx(135, 100) ELSE Mean(all_goals)
        of(team_id) == SelectSeq(seq, LAMBDA m : Plays(m, team_id))
        avg_scored(team_id) == Mean(SeqMap(LAMBDA m : GoalsFor(m, team_id), of(team_id)))
        avg_conceded(team_id) == Mean(SeqMap(LAMBDA m : GoalsAgainst(m, team_id), of(team_id)))
    IN  [team_id \in teams |->
            [attack  |-> FloorStrength(avg_scored(team_id), league_avg),
             defense |-> FloorStrength(avg_conceded(team_id), league_avg)]]

\* the seasons of a competition that have a FINISHED match (lines 96-99)
SeasonsOf(db, competition) ==
    {m.season : m \in {r \in Rows(db) : r.competition_id = competition /\ r.status = "FINISHED"}}
\* the FINISHED matches with both scores of a partition (lines 107-113)
ScoredMatches(db, competition, season) ==
    {m \in Rows(db) : /\ m.competition_id = competition
                      /\ m.season = season
                      /\ m.status = "FINISHED"
                      /\ m.home_score # None
                      /\ m.away_score # None}
\* the seasons the run skips (line 117), and those it fits
SkippedSeasons(db, competition, min_matches) ==
    {s \in SeasonsOf(db, competition) :
        Cardinality(ScoredMatches(db, competition, s)) < min_matches}
FittedSeasons(db, competition, min_matches) ==
    SeasonsOf(db, competition) \ SkippedSeasons(db, competition, min_matches)

\* the rows update_or_create writes for a fitted partition (lines 164-186)
FittedRows(db, competition, season) ==
    Bind(estimate_team_strengths(ScoredMatches(db, competition, season)),
         LAMBDA team_params :
             {[team |-> t, competition |-> competition, season |-> season,
               attack_strength |-> team_params[t].attack,
               defense_strength |-> team_params[t].defense] : t \in DOMAIN team_params})

\* Command.handle of calculate_poisson_params: the table after the run
calculate_poisson_params(db, params, force, min_matches) ==
    LET kept == IF force THEN {} ELSE params
        fitted == FittedSeasons(db, 1, min_matches)
        written == UNION {FittedRows(db, 1, s) : s \in fitted}
        replaced == {r \in kept : \E w \in written :
                        w.team = r.team /\ w.competition = r.competition /\ w.season = r.season}
    IN  (kept \ replaced) \cup written

InitParams ==
    /\ args = NoCall
    /\ ret = NoRet
    /\ IdleDb

\* manage.py calculate_poisson_params [--force] --min-matches n
CalculatePoissonParams(force, min_matches) ==
    /\ args = NoCall
    /\ args' = [op |-> "calculate_poisson_params", force |-> force,
                min_matches |-> min_matches]
    /\ poisson_params' = calculate_poisson_params(matches, poisson_params, force, min_matches)
    /\ ret' = [status |-> "ok",
               skipped |-> SkippedSeasons(matches, 1, min_matches),
               fitted |-> FittedSeasons(matches, 1, min_matches)]
    /\ UNCHANGED <<models, feature_columns, matches, predictions, elo_ratings, import_jobs, threads>>

NextParams ==
    \/ \E i \in ParamFixtureIds, c \in ParamRowContents : CreateMatch(i, c)
    \/ \E i \in ParamFixtureIds, c \in ParamRowContents : UpdateMatch(i, c)
    \/ \E i \in ParamFixtureIds : DeleteMatch(i)
    \/ \E force \in BOOLEAN, n \in MinMatchesOptions : CalculatePoissonParams(force, n)
    \/ ReturnToCaller
SpecParams == InitParams /\ [][NextParams]_vars

\* C13: after any sequence of calculate_poisson_params runs, every
\* (competition, season) partition that the last run found to have fewer than
\* min_matches finished matches with scores has no PoissonParams rows.
C13_ShortPartitionsHaveNoParams ==
    (args.op = "calculate_poisson_params") =>
        \A s \in ret.skipped :
            {r \in poisson_params : r.competition = 1 /\ r.season = s} = {}

\* ------------------------------- specification: predict (management command)
NumPredictFixtures == 3   \* fixtures of the table the command reads
Days == 1                 \* --days

PredictFixtureIds == 1..NumPredictFixtures
PredictRowContents == {NotPlayed, FinishedScored}
Methods == {"ml", "ensemble"}
\* the teams and seasons given Poisson parameters
PredictParamKeys == {<<1, 2024>>, <<2, 2024>>}
\* enhanced_models.pkl: a trained artifact, and one saved without a btts model
PredictArtifacts ==
    {[models |-> [m \in Markets |-> TRUE], feature_columns |-> ENHANCED_FEATURE_COLUMNS],
     [models |-> [m \in Markets |-> m # "btts"], feature_columns |-> ENHANCED_FEATURE_COLUMNS]}

\* predict_proba of the fitted classifiers: a function of the feature vector
Classifier(X) ==
    IF X[1] > 0 THEN CHOOSE p \in MLOutputs : p.result.most_likely = "H"
    ELSE CHOOSE p \in MLOutputs : p.result.most_likely = "A"
\* the goal model's markets: a function of the two PoissonParams rows
GoalModel(params, match) ==
    LET home == ParamsOf(params, match.home_team_id, match.competition_id, match.season)
        away == ParamsOf(params, match.away_team_id, match.competition_id, match.season)
    IN  IF home = {} \/ away = {} THEN NoneRec
        ELSE IF match.home_team_id < match.away_team_id
        THEN CHOOSE g \in GoalModelOutputs : g.prob_home > g.prob_away
        ELSE CHOOSE g \in GoalModelOutputs : g.prob_home < g.prob_away

\* upcoming_matches (lines 69-74), in the order of utc_date
UpcomingMatches(db, now, days) ==
    LET S == {m \in Rows(db) : /\ m.utc_date >= now
                               /\ m.utc_date <= now + days
                               /\ m.status \in {"SCHEDULED", "TIMED"}}
        desc == OrderByDateDesc(S)
    IN  [i \in 1..Len(desc) |-> desc[Len(desc) + 1 - i]]

\* lines 126-170: the defaults saved for a match, or the exception caught
PredictionDefaults(db, params, loaded, columns, match, method) ==
    Bind(Classifier(BuildX(columns, calculate_enhanced_features(db, TempMatch(match.id)))),
         LAMBDA proba :
    IF method = "ml"
    THEN LET p == ml_predict_match(db, loaded, columns, TempMatch(match.id), proba).predictions
         IN  IF DOMAIN p # Markets THEN [status |-> "KeyError"]
             ELSE [status |-> "ok",
                   prob_home |-> p.result.home_win, prob_draw |-> p.result.draw,
                   prob_away |-> p.result.away_win, prob_over_25 |-> p.over_25.yes,
                   prob_btts |-> p.btts.yes, predicted_corners |-> None]
    ELSE LET p == predict_match(db, params, loaded, columns, match, proba,
                                GoalModel(params, match))
         IN  IF p.status # "ok" THEN [status |-> p.status]
             ELSE [status |-> "ok",
                   prob_home |-> p.prob_home, prob_draw |-> p.prob_draw,
                   prob_away |-> p.prob_away, prob_over_25 |-> p.prob_over_25,
                   prob_btts |-> p.prob_btts, predicted_corners |-> None])

\* the columns of a Prediction row written by the command
PredictionColumns ==
    {"prob_home", "prob_draw", "prob_away", "prob_over_25", "prob_btts", "predicted_corners"}
\* a primary key no row uses
NewId(rows) == CHOOSE n \in 1..(Cardinality(rows) + 1) : \A r \in rows : r.id # n

\* Prediction.objects.create(match=match, **defaults): the table after it
prediction_create(rows, match_id, defaults) ==
    rows \cup {Merge([id |-> NewId(rows), match |-> match_id],
                     [k \in PredictionColumns |-> defaults[k]])}

\* Prediction.objects.update_or_create(match=match, defaults=...): the table after it
prediction_update_or_create(rows, match_id, defaults) ==
    LET found == {r \in rows : r.match = match_id}
        values == [k \in PredictionColumns |-> defaults[k]]
    IN  IF found = {}
        THEN rows \cup {Merge([id |-> NewId(rows), match |-> match_id], values)}
        ELSE IF Cardinality(found) = 1
        THEN (rows \ found) \cup {Merge(values, r) : r \in found}
        ELSE rows        \* MultipleObjectsReturned, caught at line 229

\* the loop of lines 124-233 over upcoming_matches
RECURSIVE SavePredictions(_, _, _, _, _, _, _)
SavePredictions(rows, upcoming, db, params, loaded, columns, method) ==
    IF upcoming = <<>> THEN rows
    ELSE Bind(PredictionDefaults(db, params, loaded, columns, Head(upcoming), method),
              LAMBDA defaults :
                  SavePredictions(
                      IF defaults.status = "ok"
                      THEN prediction_update_or_create(rows, Head(upcoming).id, defaults)
                      ELSE rows,
                      Tail(upcoming), db, params, loaded, columns, method))

\* Command.handle of predict: the Prediction table after the run
predict_command(rows, db, params, data, now, days, method) ==
    SavePredictions(rows, UpcomingMatches(db, now, days), db, params,
                    data.models, data.feature_columns, method)

InitPredict ==
    /\ args = NoCall
    /\ ret = NoRet
    /\ IdleDb

\* manage.py predict --days d --method m, run at time now with artifact data
PredictCommand(now, method, data) ==
    /\ args = NoCall
    /\ args' = [op |-> "predict", now |-> now, method |-> method, data |-> data]
    /\ models' = data.models
    /\ feature_columns' = data.feature_columns
    /\ predictions' = predict_command(predictions, matches, poisson_params, data,
                                      now, Days, method)
    /\ ret' = [status |-> "ok",
               upcoming |-> {m.id : m \in {r \in Rows(matches) :
                                r.utc_date >= now /\ r.utc_date <= now + Days
                                /\ r.status \in {"SCHEDULED", "TIMED"}}}]
    /\ UNCHANGED <<poisson_params, matches, elo_ratings, import_jobs, threads>>

NextPredict ==
    \/ \E i \in PredictFixtureIds, c \in PredictRowContents : CreateMatch(i, c)
    \/ \E i \in PredictFixtureIds, c \in PredictRowContents : UpdateMatch(i, c)
    \/ \E i \in PredictFixtureIds : DeleteMatch(i)
    \/ \E k \in PredictParamKeys : args = NoCall /\ UpdateOrCreateParams(k[1], k[2])
    \/ args = NoCall /\ DeleteAllParams
    \/ \E now \in PredictFixtureIds, method \in Methods, data \in PredictArtifacts :
          PredictCommand(now, method, data)
    \/ ReturnToCaller
SpecPredict == InitPredict /\ [][NextPredict]_vars

\* C14: the predict command is idempotent: running it again on the same
\* artifact and the same database leaves the Prediction table as the first run
\* left it, with exactly one row per predicted match holding the probabilities
\* the command computes (the second run updates, never duplicates or alters).
C14_PredictIdempotent ==
    (args.op = "predict") =>
        /\ predict_command(predictions, matches, poisson_params, args.data,
                           args.now, Days, args.method) = predictions
        /\ \A i \in ret.upcoming :
              LET defaults == PredictionDefaults(matches, poisson_params, args.data.models,
                                  args.data.feature_columns, matches[i], args.method)
              IN  defaults.status = "ok" =>
                      /\ Cardinality({r \in predictions : r.match = i}) = 1
                      /\ \A r \in predictions : r.match = i =>
                            \A k \in PredictionColumns : r[k] = defaults[k]
        /\ \A i \in DOMAIN matches : Cardinality({r \in predictions : r.match = i}) <= 1

\* an ensemble run after an earlier run: the first row ever created holds
\* combined probabilities, and a row of a match outside the window is kept
C14_Witness ==
    /\ args.op = "predict"
    /\ args.method = "ensemble"
    /\ \E r \in predictions :
          /\ r.match \in ret.upcoming
          /\ r.id = 1
          /\ r.prob_home \notin {p.result.home_win : p \in MLOutputs}
    /\ \E r \in predictions : r.match \notin ret.upcoming

\* ------------- specification: calculate_enhanced_features on sparse histories
NumSparseFixtures == 3   \* fixtures of the table

SparseFixtureIds == 1..NumSparseFixtures
\* a finished match imported with the home score only (import_leagues.py
\* lines 178-188 with FTAG missing)
FinishedHalfScored == [FinishedNoScore EXCEPT !.home_score = 1]
SparseRowContents == RowContents \cup {FinishedHalfScored}

InitSparse ==
    /\ args = NoCall
    /\ ret = NoRet
    /\ IdleDb

NextSparse ==
    \/ \E i \in SparseFixtureIds, c \in SparseRowContents : CreateMatch(i, c)
    \/ \E i \in SparseFixtureIds, c \in SparseRowContents : UpdateMatch(i, c)
    \/ \E i \in SparseFixtureIds : DeleteMatch(i)
    \/ \E i \in DOMAIN matches : CalculateEnhancedFeatures(matches[i])
    \/ \E i \in SparseFixtureIds : CalculateEnhancedFeatures(TempMatch(i))
    \/ ReturnToCaller
SpecSparse == InitSparse /\ [][NextSparse]_vars

\* the history a column of ENHANCED_FEATURE_COLUMNS is computed from: the
\* FINISHED matches before the kickoff of match that the column's query selects
ColumnHistory(db, match, col) ==
    LET home == match.home_team_id
        away == match.away_team_id
        before == {m \in Rows(db) : m.status = "FINISHED" /\ m.utc_date < match.utc_date}
        in_season(m) == m.competition_id = match.competition_id /\ m.season = match.season
        i == CHOOSE j \in 1..Len(ENHANCED_FEATURE_COLUMNS) : ENHANCED_FEATURE_COLUMNS[j] = col
    IN  IF i \in 1..4 THEN {m \in before : Plays(m, home)}
        ELSE IF i \in 5..8 THEN {m \in before : Plays(m, away)}
        ELSE IF i \in 9..11 THEN {m \in before : m.home_team_id = home}
        ELSE IF i \in 12..14 THEN {m \in before : m.away_team_id = away}
        ELSE IF i \in 15..19 THEN {m \in before : m.home_team_id = home /\ in_season(m)}
        ELSE IF i \in 20..24 THEN {m \in before : m.away_team_id = away /\ in_season(m)}
        ELSE IF i \in 25..28 THEN {m \in before : Plays(m, home) /\ Plays(m, away)}
        ELSE IF i = 29 THEN {m \in before : Plays(m, home) /\ m.corners_home # None}
        ELSE IF i = 30 THEN {m \in before : Plays(m, away) /\ m.corners_home # None}
        ELSE IF i = 31 THEN {m \in before : Plays(m, home) /\ m.shots_home # None}
        ELSE IF i = 32 THEN {m \in before : Plays(m, away) /\ m.shots_home # None}
        ELSE {m \in before : Plays(m, home) \/ Plays(m, away)}

\* C15: for every target match, also one whose teams have no earlier finished
\* match, no head-to-head meeting and no corner or shot statistics,
\* calculate_enhanced_features raises no error and returns a value for every
\* column of ENHANCED_FEATURE_COLUMNS, a column being 0 when the history it
\* is computed from is empty.
C15_SparseHistoryNeverFails ==
    (args.op = "calculate_enhanced_features") =>
        /\ ret.status = "ok"
        /\ \A i \in 1..Len(ENHANCED_FEATURE_COLUMNS) :
              LET col == ENHANCED_FEATURE_COLUMNS[i]
              IN  /\ col \in DOMAIN ret.value
                  /\ ColumnHistory(matches, args.match, col) = {} => ret.value[col] = 0

\* C15 for the targets that are not FINISHED with half a score: no error, every
\* column present, and 0 on an empty history
C15_SparseHistoryDefaults ==
    (args.op = "calculate_enhanced_features" /\ ret.status = "ok") =>
        \A i \in 1..Len(ENHANCED_FEATURE_COLUMNS) :
            LET col == ENHANCED_FEATURE_COLUMNS[i]
            IN  /\ col \in DOMAIN ret.value
                /\ ColumnHistory(matches, args.match, col) = {} => ret.value[col] = 0

\* ------------------------------------ specification: the EloRating table
MaxEloRows == 4     \* rows the table holds at most
NumEloTeams == 2    \* teams rated

EloTeams == 1..NumEloTeams
EloSeasons == {None, 2023, 2024}    \* None: the persistent rating
DefaultRating == 1500 * Scale       \* rating = models.FloatField(default=1500.0)

\* rows with the key of a new row that the database compares equal to it:
\* unique_together = [['team', 'competition', 'season']]
SameKey(rows, team, competition, season) ==
    {r \in rows : r.team = team /\ r.competition = competition /\ r.season = season}

InitElo ==
    /\ args = NoCall
    /\ ret = NoRet
    /\ IdleDb

\* EloRating.objects.create(team, competition, season): the unique index
\* accepts the row when no row has its key; a key with a NULL season equals
\* no other key where NULLs are distinct in unique indexes (SQLite,
\* PostgreSQL, MySQL)
CreateEloRating(team, season) ==
    /\ Cardinality(elo_ratings) < MaxEloRows
    /\ season = None \/ SameKey(elo_ratings, team, 1, season) = {}
    /\ elo_ratings' = elo_ratings \cup
          {[id |-> NewId(elo_ratings), team |-> team, competition |-> 1,
            season |-> season, rating |-> DefaultRating]}
    /\ args' = [op |-> "create_elo", team |-> team, season |-> season]
    /\ ret' = [status |-> "ok"]
    /\ UNCHANGED <<poisson_params, models, feature_columns, matches, predictions, import_jobs, threads>>

\* the same call refused: a row has the key (with a NULL season only where the
\* database compares NULLs equal in a composite unique index)
CreateEloRatingRefused(team, season) ==
    /\ SameKey(elo_ratings, team, 1, season) # {}
    /\ args' = [op |-> "create_elo", team |-> team, season |-> season]
    /\ ret' = [status |-> "IntegrityError"]
    /\ UNCHANGED <<poisson_params, models, feature_columns, matches, predictions, elo_ratings, import_jobs, threads>>

\* get_elo_features, lines 377-395: EloRating.objects.get(team_id=...,
\* competition_id=..., season__isnull=True), DoesNotExist giving the default
GetPersistentElo(team) ==
    /\ args' = [op |-> "get_persistent_elo", team |-> team]
    /\ ret' = LET found == SameKey(elo_ratings, team, 1, None)
              IN  IF found = {} THEN [status |-> "ok", rating |-> DefaultRating]
                  ELSE IF Cardinality(found) = 1
                  THEN [status |-> "ok", rating |-> (CHOOSE r \in found : TRUE).rating]
                  ELSE [status |-> "MultipleObjectsReturned"]
    /\ UNCHANGED <<poisson_params, models, feature_columns, matches, predictions, elo_ratings, import_jobs, threads>>

\* a team is deleted, and with it its ratings (on_delete=CASCADE)
DeleteTeamRatings(team) ==
    /\ \E r \in elo_ratings : r.team = team
    /\ elo_ratings' = {r \in elo_ratings : r.team # team}
    /\ args' = [op |-> "delete_team", team |-> team]
    /\ ret' = [status |-> "ok"]
    /\ UNCHANGED <<poisson_params, models, feature_columns, matches, predictions, import_jobs, threads>>

NextElo ==
    \/ \E team \in EloTeams, season \in EloSeasons : CreateEloRating(team, season)
    \/ \E team \in EloTeams, season \in EloSeasons : CreateEloRatingRefused(team, season)
    \/ \E team \in EloTeams : GetPersistentElo(team)
    \/ \E team \in EloTeams : DeleteTeamRatings(team)
SpecElo == InitElo /\ [][NextElo]_vars

\* C16: for every (team, competition) there is never more than one EloRating
\* row with season = null and never more than one row per non-null season,
\* after any sequence of row creations the uniqueness constraint admits.
C16_OneRowPerKey ==
    \A team \in EloTeams, season \in EloSeasons :
        Cardinality(SameKey(elo_ratings, team, 1, season)) <= 1

\* ----------------------------------------------- Elo rating update (elo.py)
EloGrid == 100      \* resolution of the Elo numbers: 1 / (8 * EloGrid)
MaxGoalDiff == 4    \* goal differences of the matches rated: 0 .. MaxGoalDiff

\* The numbers of the Elo functions: v stands for v / EloOne.  Subtraction of
\* floats of different magnitude is not exact: a float in [1/2, 1) has half
\* the resolution of one in [1/4, 1/2).  The Elo functions are modelled with
\* that loss: a number below 1/2 is kept to one unit, a larger one to two
\* units (ties to even).
EloOne == 8 * EloGrid
FloatRound(x) == IF Abs(x) >= EloOne \div 2 THEN 2 * RoundDiv(x, 2) ELSE x
FSub(a, b) == FloatRound(a - b)
EMul(a, b) == RoundDiv(a * b, EloOne)

\* a draw scored as a loss of the away side
actual_score_draw_lost_away(result_) ==
    IF result_ = "H" THEN [status |-> "ok", home |-> EloOne, away |-> 0]
    ELSE IF result_ = "A" THEN [status |-> "ok", home |-> 0, away |-> EloOne]
    ELSE IF result_ = "D" THEN [status |-> "ok", home |-> EloOne \div 2, away |-> 0]
    ELSE [status |-> "ValueError"]

\* get_actual_score_from_result(result) -> (home_score, away_score)
get_actual_score_from_result(result_) ==
    IF result_ = "H" THEN [status |-> "ok", home |-> EloOne, away |-> 0]
    ELSE IF result_ = "A" THEN [status |-> "ok", home |-> 0, away |-> EloOne]
    ELSE IF result_ = "D"
    THEN [status |-> "ok", home |-> EloOne \div 2, away |-> EloOne \div 2]
    ELSE [status |-> "ValueError"]

\* the multiplier with the increment beyond 3 goals added to the value for 2 goals
goal_margin_multiplier_from_two(goal_diff) ==
    IF goal_diff <= 1 THEN EloOne
    ELSE IF goal_diff = 2 THEN (3 * EloOne) \div 2
    ELSE IF goal_diff = 3 THEN (7 * EloOne) \div 4
    ELSE (3 * EloOne) \div 2 + ((goal_diff - 3) * EloOne) \div 8

\* calculate_goal_margin_multiplier(goal_diff)
calculate_goal_margin_multiplier(goal_diff) ==
    IF goal_diff <= 1 THEN EloOne
    ELSE IF goal_diff = 2 THEN (3 * EloOne) \div 2
    ELSE IF goal_diff = 3 THEN (7 * EloOne) \div 4
    ELSE (7 * EloOne) \div 4 + ((goal_diff - 3) * EloOne) \div 8

\* calculate_new_rating(current_rating, expected_score, actual_score, k_factor,
\*                      goal_margin_multiplier)
calculate_new_rating(current_rating, expected_score, actual_score, k_factor, goal_margin_multiplier) ==
    LET rating_change == EMul(EMul(k_factor, goal_margin_multiplier),
                              FSub(actual_score, expected_score))
    IN  current_rating + rating_change

\* the floats in (0, 1): expected scores
ExpectedScores == {e \in 1..(EloOne - 1) : FloatRound(e) = e}
KFactors == {25 * EloOne, 30 * EloOne}
EloRatings == {1400 * EloOne, 1600 * EloOne}

InitEloUpdate ==
    /\ args \in [op : {"elo_update"},
                 home_rating : EloRatings, away_rating : {1500 * EloOne},
                 expected_home : ExpectedScores,
                 result : {"H", "D", "A"},
                 k_factor : KFactors,
                 goal_diff : 0..MaxGoalDiff]
    /\ ret = NoRet
    /\ IdleDb

\* one finished match: both ratings updated with the same K and G,
\* E_away = 1 - E_home, (S_home, S_away) = get_actual_score_from_result(result)
EloUpdate ==
    /\ args.op = "elo_update"
    /\ ret = NoRet
    /\ ret' = LET S == get_actual_score_from_result(args.result)
                  G == calculate_goal_margin_multiplier(args.goal_diff)
                  expected_away == FSub(EloOne, args.expected_home)
              IN  [status |-> "ok",
                   home |-> calculate_new_rating(args.home_rating, args.expected_home,
                                                 S.home, args.k_factor, G),
                   away |-> calculate_new_rating(args.away_rating, expected_away,
                                                 S.away, args.k_factor, G)]
    /\ UNCHANGED <<args, poisson_params, models, feature_columns, matches, predictions, elo_ratings, import_jobs, threads>>

NextEloUpdate == EloUpdate
SpecEloUpdate == InitEloUpdate /\ [][NextEloUpdate]_vars

HomeChange == ret.home - args.home_rating
AwayChange == ret.away - args.away_rating

\* C17 (as stated): with the same K and G on both sides, E_away = 1 - E_home
\* and the actual scores of get_actual_score_from_result, the away side's
\* rating change is the exact negative of the home side's change and the sum
\* of the two ratings is unchanged.
C17_ChangesExactlyOpposite ==
    (args.op = "elo_update" /\ ret # NoRet) =>
        /\ AwayChange = -HomeChange
        /\ ret.home + ret.away = args.home_rating + args.away_rating

\* C17 (amended): the away side's change is the negative of the home side's
\* change up to rounding (one unit in the last place of E_away = 1 - E_home,
\* scaled by K * G, and the rounding of the two products), and exactly so
\* when the home side won or E_home is at least 1/2, where that subtraction is
\* exact.
C17_ChangesOppositeWithinRounding ==
    (args.op = "elo_update" /\ ret # NoRet) =>
        LET KG == EMul(args.k_factor, calculate_goal_margin_multiplier(args.goal_diff))
        IN  /\ Abs(HomeChange + AwayChange) * EloOne <= KG + EloOne
            /\ (args.result = "H" \/ args.expected_home >= EloOne \div 2) =>
                  AwayChange = -HomeChange
            /\ Abs((ret.home + ret.away) - (args.home_rating + args.away_rating)) * EloOne
                  <= KG + EloOne

\* a draw of an underdog home side, where 1 - E_home was rounded and the two
\* changes are not opposite
C17_Witness ==
    /\ args.op = "elo_update"
    /\ ret # NoRet
    /\ args.result = "D"
    /\ args.expected_home < EloOne \div 2
    /\ FSub(EloOne, FSub(EloOne, args.expected_home)) # args.expected_home
    /\ HomeChange > 0
    /\ AwayChange < 0
    /\ AwayChange # -HomeChange

\* ------------------------- specification: EnsemblePredictor(ml_weight)
\* the ml_weight values given to the constructor
MLWeights == {Fx(50, 100), Fx(70, 100), Fx(90, 100)}

\* EnsemblePredictor.__init__(ml_weight): the attributes it sets
EnsemblePredictor(ml_weight) ==
    [ml_weight |-> ml_weight,
     poisson_weight |-> One - ml_weight,
     market_weights |-> market_weights]

InitWeights ==
    /\ args \in [op : {"ensemble_combine"}, ml_weight : MLWeights,
                 ml_pred : MLPreds, poisson_pred : PoissonPreds]
    /\ ret = NoRet
    /\ IdleDb

\* EnsemblePredictor(ml_weight=w)._combine_predictions(ml_pred, poisson_pred)
CombineWithWeight ==
    /\ args.op = "ensemble_combine"
    /\ ret = NoRet
    /\ ret' = LET self == EnsemblePredictor(args.ml_weight)
              IN  Merge([ml_weight |-> self.ml_weight,
                         poisson_weight |-> self.poisson_weight],
                        _combine_predictions(args.ml_pred, args.poisson_pred))
    /\ UNCHANGED <<args, poisson_params, models, feature_columns, matches, predictions, elo_ratings, import_jobs, threads>>

NextWeights == CombineWithWeight
SpecWeights == InitWeights /\ [][NextWeights]_vars

\* the result probabilities combined with weight w for ML and 1 - w for the
\* GoalModel, normalised
WeightedResult(w, ml_pred, poisson_pred) ==
    NormalizeTriple(FMul(w, ml_pred.prob_home) + FMul(One - w, poisson_pred.prob_home),
                    FMul(w, ml_pred.prob_draw) + FMul(One - w, poisson_pred.prob_draw),
                    FMul(w, ml_pred.prob_away) + FMul(One - w, poisson_pred.prob_away))

\* C18: the ml_weight given to the constructor is the weight applied to the ML
\* probabilities (1 - ml_weight to the GoalModel's) when the result market is
\* combined (compared up to one percentage point, which absorbs the rounding
\* of the products and quotients).
C18_MlWeightIsResultWeight ==
    (args.op = "ensemble_combine" /\ ret # NoRet /\ ret.status = "ok") =>
        LET expected == WeightedResult(args.ml_weight, args.ml_pred, args.poisson_pred)
        IN  /\ Abs(ret.prob_home - expected.prob_home) <= 10
            /\ Abs(ret.prob_draw - expected.prob_draw) <= 10
            /\ Abs(ret.prob_away - expected.prob_away) <= 10

\* ------------------------------------------------------------------ C19
\* the probabilities of the grid that are not below p
ProbsFrom(p) == {Fx(k, KGrid) : k \in 0..KGrid} \cap {x \in 0..One : x >= p}

\* C19: for fixed odds > 1 neither Kelly stake decreases when the model
\* probability grows: the stake returned for p is at most the stake of every
\* p2 >= p at the same odds, after the cap and the rounding to two decimals.
C19_KellyMonotone ==
    (ret.status = "ok" /\ args.odds > One) =>
        \A p2 \in ProbsFrom(args.probability) :
            /\ ("value" \in DOMAIN ret) =>
                  ret.value <= _kelly_stake(p2, args.odds, args.fraction).value
            /\ ("stake" \in DOMAIN ret) =>
                  ret.stake <= kelly_stake(p2, args.odds, args.bankroll, args.fraction,
                                           args.max_stake_pct).stake

\* _kelly_stake returned a stake strictly between 0 and its cap, and a larger
\* probability at the same odds gets a strictly larger one
C19_Witness ==
    /\ ret.status = "ok"
    /\ "value" \in DOMAIN ret
    /\ args.odds > One
    /\ ret.value > 0
    /\ ret.value < 10 * 100
    /\ \E p2 \in ProbsFrom(args.probability) :
           _kelly_stake(p2, args.odds, args.fraction).value > ret.value

\* ------------------------------------------------------------------ C20
\* PoissonModel.predict_match_outcome (ml/poisson.py)
LambdaSteps == 8       \* expected goals fed to the model: k / 4, k in 1..LambdaSteps
MaxScore == 5          \* largest max_goals passed to predict_match_outcome
Lambdas == {Fx(k, 4) : k \in 1..LambdaSteps}
MaxGoalsOptions == 3..MaxScore

\* exp(-k / 4), as the k-th power of exp(-1 / 4)
RECURSIVE ExpNegQuarters(_)
ExpNegQuarters(k) == IF k = 0 THEN One ELSE FMul(ExpNegQuarters(k - 1), Fx(7788, 10000))

\* scipy.stats.poisson.pmf(k, lambda_) = lambda_^k * exp(-lambda_) / k!
RECURSIVE poisson_pmf(_, _)
poisson_pmf(k, lambda_) ==
    IF k = 0 THEN ExpNegQuarters(RoundDiv(lambda_ * 4, Scale))
    ELSE RoundDiv(poisson_pmf(k - 1, lambda_) * lambda_, k * Scale)

\* predict_score_probability(lambda_home, lambda_away, home_goals, away_goals)
predict_score_probability(lambda_home, lambda_away, home_goals, away_goals) ==
    FMul(poisson_pmf(home_goals, lambda_home), poisson_pmf(away_goals, lambda_away))

\* prob_matrix[home_g, away_g]; the zero-based cell (h, a) is ScoreMatrix(..)[h + 1][a + 1]
ScoreMatrix(lambda_home, lambda_away, max_goals) ==
    [h \in 1..(max_goals + 1) |->
        [a \in 1..(max_goals + 1) |->
            predict_score_probability(lambda_home, lambda_away, h - 1, a - 1)]]

\* np.sum of the cells (h, a) of prob_matrix with h in rows and a in cols (zero-based)
BlockSum(prob_matrix, rows, cols) ==
    SumSeq([h \in 1..Len(prob_matrix) |->
               SumSeq([a \in 1..Len(prob_matrix) |->
                          IF (h - 1) \in rows /\ (a - 1) \in cols
                          THEN prob_matrix[h][a] ELSE 0])])

\* the triangle sums with the diagonal included (np.tril / np.triu without offset)
DiagonalSumInclusive(prob_matrix, diffs) ==
    SumSeq([h \in 1..Len(prob_matrix) |->
               SumSeq([a \in 1..Len(prob_matrix) |->
                          IF (h - a) \in (diffs \cup {0}) THEN prob_matrix[h][a] ELSE 0])])

\* the summed probability of the cells with home_goals - away_goals in diffs
DiagonalSum(prob_matrix, diffs) ==
    SumSeq([h \in 1..Len(prob_matrix) |->
               SumSeq([a \in 1..Len(prob_matrix) |->
                          IF (h - a) \in diffs THEN prob_matrix[h][a] ELSE 0])])

\* the summed probability of the cells with home_goals + away_goals <= total
TotalAtMost(prob_matrix, total) ==
    SumSeq([h \in 1..Len(prob_matrix) |->
               SumSeq([a \in 1..Len(prob_matrix) |->
                          IF (h - 1) + (a - 1) <= total THEN prob_matrix[h][a] ELSE 0])])

\* the values predict_match_outcome derives from prob_matrix
MatchOutcome(prob_matrix, lambda_home, lambda_away, max_goals) ==
    LET all      == 0..max_goals
        under_15 == prob_matrix[1][1] + prob_matrix[2][1] + prob_matrix[1][2]
        under_25 == BlockSum(prob_matrix, 0..1, 0..1)         \* prob_matrix[0:2, 0:2]
        under_35 == TotalAtMost(prob_matrix, 3)               \* the loop of lines 137-141
    IN  [home_win |-> DiagonalSum(prob_matrix, 1..max_goals),        \* np.tril(., -1)
         draw     |-> DiagonalSum(prob_matrix, {0}),                 \* np.diag
         away_win |-> DiagonalSum(prob_matrix, (-max_goals)..(-1)),  \* np.triu(., 1)
         over_05  |-> One - prob_matrix[1][1],
         over_15  |-> One - under_15,
         over_25  |-> One - under_25,
         over_35  |-> One - under_35,
         btts     |-> One - BlockSum(prob_matrix, {0}, all) - BlockSum(prob_matrix, all, {0})
                          + prob_matrix[1][1],
         expected_total_goals |-> lambda_home + lambda_away,
         lambda_home |-> lambda_home,
         lambda_away |-> lambda_away]

\* predict_match_outcome(lambda_home, lambda_away, max_goals)
predict_match_outcome(lambda_home, lambda_away, max_goals) ==
    MatchOutcome(ScoreMatrix(lambda_home, lambda_away, max_goals),
                 lambda_home, lambda_away, max_goals)

InitOutcome ==
    /\ args \in [op : {"predict_match_outcome"},
                 lambda_home : Lambdas,
                 lambda_away : Lambdas,
                 max_goals : MaxGoalsOptions]
    /\ ret = NoRet
    /\ IdleDb

PredictMatchOutcome ==
    /\ args.op = "predict_match_outcome"
    /\ ret = NoRet
    /\ ret' = Merge([status |-> "ok"],
                     predict_match_outcome(args.lambda_home, args.lambda_away, args.max_goals))
    /\ UNCHANGED <<args, poisson_params, models, feature_columns, matches, predictions, elo_ratings, import_jobs, threads>>

NextOutcome == PredictMatchOutcome
SpecOutcome == InitOutcome /\ [][NextOutcome]_vars

\* the over-X.5 probability of a returned dict
OverOf(r, X) ==
    IF X = 0 THEN r.over_05 ELSE IF X = 1 THEN r.over_15
    ELSE IF X = 2 THEN r.over_25 ELSE r.over_35

\* C20: each over-X.5 probability returned by predict_match_outcome (X in
\* 0..3) is 1 minus the summed probability of exactly the cells of the score
\* matrix with home_goals + away_goals <= X.
C20_OverIsTailMass ==
    (args.op = "predict_match_outcome" /\ ret.status = "ok") =>
        \A X \in 0..3 :
            OverOf(ret, X) =
                One - TotalAtMost(ScoreMatrix(args.lambda_home, args.lambda_away,
                                              args.max_goals), X)

\* over-0.5, over-1.5 and over-3.5 are 1 minus the mass of the cells up to
\* their threshold; over-2.5 is 1 minus the mass of the 2 x 2 block 0-0, 0-1,
\* 1-0, 1-1, which leaves 2-0 and 0-2 in the over side
C20_OnlyOver25Differs ==
    (args.op = "predict_match_outcome" /\ ret.status = "ok") =>
        LET m == ScoreMatrix(args.lambda_home, args.lambda_away, args.max_goals)
        IN  /\ \A X \in {0, 1, 3} : OverOf(ret, X) = One - TotalAtMost(m, X)
            /\ ret.over_25 = One - TotalAtMost(m, 2) + m[3][1] + m[1][3]

\* --------------------------------- specification: the Elo helpers (elo.py)
ProgressGrid == 10     \* season_progress given directly: k / ProgressGrid
MaxMatchday == 40      \* matchdays 0 .. MaxMatchday (a league season has 38)
MaxMargin == 6         \* goal differences 0 .. MaxMargin
CompetitionCodes == {"PL", "PD", "CL"}
Matchdays == {None} \cup 0..MaxMatchday

\* get_k_factor with the season-progress limits included in the overrides
get_k_factor_inclusive(competition_code, matchday, season_progress) ==
    LET base_k == IF competition_code = "CL"
                  THEN (IF ~Falsy(matchday) /\ matchday > 8 THEN 40 ELSE 35)
                  ELSE 30
    IN  IF season_progress <= Fx(2, 10) THEN 25
        ELSE IF season_progress >= Fx(8, 10) THEN 35
        ELSE base_k

\* get_k_factor(competition_code, matchday, season_progress): an int
get_k_factor(competition_code, matchday, season_progress) ==
    LET base_k == IF competition_code = "CL"
                  THEN (IF ~Falsy(matchday) /\ matchday > 8 THEN 40 ELSE 35)
                  ELSE 30
    IN  IF season_progress < Fx(2, 10) THEN 25
        ELSE IF season_progress > Fx(8, 10) THEN 35
        ELSE base_k

\* get_season_progress(competition_code, matchday)
get_season_progress(competition_code, matchday) ==
    IF matchday = None THEN Fx(5, 10)
    ELSE LET total_matchdays == IF competition_code = "CL" THEN 13 ELSE 38
         IN  Min(Fx(matchday, total_matchdays), One)

InitEloHelpers ==
    /\ args \in [op : {"elo_helpers"},
                 competition_code : CompetitionCodes,
                 matchday : Matchdays,
                 season_progress : {Fx(k, ProgressGrid) : k \in 0..ProgressGrid},
                 goal_diff : 0..MaxMargin]
    /\ ret = NoRet
    /\ IdleDb

\* get_k_factor(competition_code, matchday, season_progress)
GetKFactor ==
    /\ args.op = "elo_helpers"
    /\ ret = NoRet
    /\ ret' = [status |-> "ok", call |-> "get_k_factor",
               value |-> get_k_factor(args.competition_code, args.matchday,
                                      args.season_progress)]
    /\ UNCHANGED <<args, poisson_params, models, feature_columns, matches, predictions, elo_ratings, import_jobs, threads>>

\* get_k_factor(code, matchday, get_season_progress(code, matchday))
GetKFactorOfMatchday ==
    /\ args.op = "elo_helpers"
    /\ ret = NoRet
    /\ ret' = [status |-> "ok", call |-> "get_k_factor(get_season_progress)",
               value |-> get_k_factor(args.competition_code, args.matchday,
                                      get_season_progress(args.competition_code,
                                                          args.matchday))]
    /\ UNCHANGED <<args, poisson_params, models, feature_columns, matches, predictions, elo_ratings, import_jobs, threads>>

\* calculate_goal_margin_multiplier(goal_diff)
GoalMarginMultiplier ==
    /\ args.op = "elo_helpers"
    /\ ret = NoRet
    /\ ret' = [status |-> "ok", call |-> "calculate_goal_margin_multiplier",
               value |-> calculate_goal_margin_multiplier(args.goal_diff)]
    /\ UNCHANGED <<args, poisson_params, models, feature_columns, matches, predictions, elo_ratings, import_jobs, threads>>

NextEloHelpers == GetKFactor \/ GetKFactorOfMatchday \/ GoalMarginMultiplier
SpecEloHelpers == InitEloHelpers /\ [][NextEloHelpers]_vars

\* the base K of a competition and matchday
BaseK(code, matchday) ==
    IF code # "CL" THEN 30
    ELSE IF matchday # None /\ matchday > 8 THEN 40 ELSE 35

\* the season length that get_season_progress divides by
SeasonLength(code) == IF code = "CL" THEN 13 ELSE 38

\* C21: get_k_factor is 25 below 20 % of the season, 35 above 80 %, and
\* otherwise the base (40 for 'CL' after matchday 8, 35 for 'CL' otherwise, 30
\* elsewhere); it is one of 25, 30, 35, 40; and with the progress of
\* get_season_progress it is decided by (competition, matchday) alone, through
\* matchday / 38 (or / 13) capped at 1 and 1/2 without a matchday.
C21_KFactorTable ==
    /\ (ret.status = "ok" /\ ret.call = "get_k_factor") =>
          /\ ret.value \in {25, 30, 35, 40}
          /\ ret.value = IF args.season_progress * 10 < 2 * Scale THEN 25
                         ELSE IF args.season_progress * 10 > 8 * Scale THEN 35
                         ELSE BaseK(args.competition_code, args.matchday)
    /\ (ret.status = "ok" /\ ret.call = "get_k_factor(get_season_progress)") =>
          LET n == SeasonLength(args.competition_code)
              m == args.matchday
          IN  /\ ret.value \in {25, 30, 35, 40}
              /\ ret.value = IF m = None THEN BaseK(args.competition_code, m)
                             ELSE IF 10 * m < 2 * n THEN 25
                             ELSE IF 10 * Min(m, n) > 8 * n THEN 35
                             ELSE BaseK(args.competition_code, m)

\* a knockout matchday of 'CL' in mid-season progress: K is 40
C21_Witness ==
    /\ ret.status = "ok"
    /\ ret.call = "get_k_factor"
    /\ args.competition_code = "CL"
    /\ args.matchday = 9
    /\ args.season_progress = Fx(2, 10)
    /\ ret.value = 40

\* C22: calculate_goal_margin_multiplier is 1.0 up to a difference of 1, 1.5
\* for 2, 1.75 for 3 and 1.75 + (d - 3) / 8 from 4 on; it is never below 1.0
\* and does not decrease when the difference grows.
C22_GoalMarginLadder ==
    (ret.status = "ok" /\ ret.call = "calculate_goal_margin_multiplier") =>
        LET d == args.goal_diff
        IN  /\ 8 * ret.value = IF d <= 1 THEN 8 * EloOne
                               ELSE IF d = 2 THEN 12 * EloOne
                               ELSE IF d = 3 THEN 14 * EloOne
                               ELSE (14 + (d - 3)) * EloOne
            /\ ret.value >= EloOne
            /\ \A d2 \in d..(MaxMargin + 1) :
                   ret.value <= calculate_goal_margin_multiplier(d2)

\* a win by four goals: 1.875
C22_Witness ==
    /\ ret.status = "ok"
    /\ ret.call = "calculate_goal_margin_multiplier"
    /\ args.goal_diff = 4
    /\ 8 * ret.value = 15 * EloOne

\* ------------------------------- specification: EloRating.elo_momentum
MaxPushes == 7                        \* rating updates of the row followed
RatingDeltas == {-(8 * Scale), 12 * Scale}     \* the rating changes applied

\* the text of last_5_ratings: a JSON array of numbers (json.dumps of a
\* list), or text that json.loads rejects
JsonDumps(list) == [json |-> "array", items |-> list]
InvalidJson == [json |-> "invalid"]

\* json.loads(text)
JsonLoads(text) ==
    IF text.json = "array" THEN [status |-> "ok", value |-> text.items]
    ELSE [status |-> "JSONDecodeError"]

\* the property with the snapshot before the newest one as the older end
elo_momentum_last_step(self) ==
    LET loaded == JsonLoads(self.last_5_ratings)
    IN  IF loaded.status # "ok" THEN 0
        ELSE LET ratings == loaded.value
             IN  IF Len(ratings) < 2 THEN 0
                 ELSE ratings[Len(ratings)] - ratings[Len(ratings) - 1]

\* EloRating.elo_momentum
elo_momentum(self) ==
    LET loaded == JsonLoads(self.last_5_ratings)
    IN  IF loaded.status # "ok" THEN 0                     \* except json.JSONDecodeError
        ELSE LET ratings == loaded.value
             IN  IF Len(ratings) < 2 THEN 0
                 ELSE ratings[Len(ratings)] - ratings[1]   \* ratings[-1] - ratings[0]

\* the window after a push: the new rating last, the oldest evicted beyond 5
PushWindow(ratings, rating) ==
    LET longer == Append(ratings, rating)
    IN  IF Len(longer) > 5 THEN Tail(longer) ELSE longer

\* a new EloRating row: rating 1500.0, last_5_ratings '[]'.  rated is not a
\* column: it lists every rating the row has held after a match, oldest first
NewEloRow ==
    [team |-> 1, competition |-> 1, season |-> None,
     rating |-> DefaultRating, matches_played |-> 0,
     last_5_ratings |-> JsonDumps(<<>>), rated |-> <<>>]

InitMomentum ==
    /\ args = NoCall
    /\ ret = NoRet
    /\ poisson_params = {}
    /\ models = [m \in {"result", "over_25", "btts"} |-> TRUE]
    /\ feature_columns = <<>>
    /\ matches = <<>>
    /\ predictions = {}
    /\ elo_ratings = {NewEloRow}
    /\ import_jobs = {}
    /\ threads = NoThreads

\* the rating update of one finished match: the new rating is stored and
\* pushed on the window
PushRating(delta) ==
    /\ args = NoCall
    /\ \E r \in elo_ratings :
          /\ r.matches_played < MaxPushes
          /\ LET rating == r.rating + delta
                 window == PushWindow(JsonLoads(r.last_5_ratings).value, rating)
             IN  elo_ratings' = (elo_ratings \ {r}) \cup
                    {[r EXCEPT !.rating = rating,
                               !.matches_played = r.matches_played + 1,
                               !.last_5_ratings = JsonDumps(window),
                               !.rated = Append(r.rated, rating)]}
    /\ UNCHANGED <<args, ret, poisson_params, models, feature_columns, matches, predictions, import_jobs, threads>>

\* a read of row.elo_momentum (get_elo_features)
ReadEloMomentum ==
    /\ args = NoCall
    /\ \E r \in elo_ratings :
          /\ args' = [op |-> "elo_momentum"]
          /\ ret' = [status |-> "ok", value |-> elo_momentum(r)]
    /\ UNCHANGED <<poisson_params, models, feature_columns, matches, predictions, elo_ratings, import_jobs, threads>>

NextMomentum ==
    \/ \E delta \in RatingDeltas : PushRating(delta)
    \/ ReadEloMomentum
    \/ ReturnToCaller
SpecMomentum == InitMomentum /\ [][NextMomentum]_vars

\* the row whose momentum was read
MomentumRow == CHOOSE r \in elo_ratings : TRUE

\* C23: elo_momentum is the most recent stored rating minus the rating from 5
\* matches prior, over a window of at most 5 snapshots (newest last); it is 0
\* when the window holds fewer than 2 snapshots.
C23_MomentumFiveMatchesBack ==
    (args.op = "elo_momentum" /\ ret.status = "ok") =>
        LET r == MomentumRow
            n == Len(r.rated)
            window == JsonLoads(r.last_5_ratings).value
        IN  /\ Len(window) <= 5
            /\ Len(window) < 2 => ret.value = 0
            /\ n >= 6 => ret.value = r.rated[n] - r.rated[n - 5]

\* elo_momentum is the newest snapshot of the window minus its oldest: the
\* rating change of the last min(n, 5) - 1 matches
C23_MomentumIsWindowSpan ==
    (args.op = "elo_momentum" /\ ret.status = "ok") =>
        LET r == MomentumRow
            n == Len(r.rated)
            window == JsonLoads(r.last_5_ratings).value
        IN  /\ Len(window) = Min(n, 5)
            /\ n < 2 => ret.value = 0
            /\ n >= 2 => ret.value = r.rated[n] - r.rated[Max(1, n - 4)]

\* ------------------------------------------------------------------ C24
\* the summed probability of a set of cells <<home_goals, away_goals>>
RECURSIVE SumCells(_, _)
SumCells(prob_matrix, cells) ==
    IF cells = {} THEN 0
    ELSE LET c == CHOOSE x \in cells : TRUE
         IN  prob_matrix[c[1] + 1][c[2] + 1] + SumCells(prob_matrix, cells \ {c})

\* the cells of a matrix truncated at max_goals
Cells(max_goals) == (0..max_goals) \X (0..max_goals)

\* C24: home_win + draw + away_win of predict_match_outcome is the sum of all
\* cells of the truncated score matrix: home_win holds the cells with i > j,
\* draw those with i = j, away_win those with i < j.
C24_OutcomesPartitionMatrix ==
    (args.op = "predict_match_outcome" /\ ret.status = "ok") =>
        LET m == ScoreMatrix(args.lambda_home, args.lambda_away, args.max_goals)
            cells == Cells(args.max_goals)
        IN  /\ ret.home_win = SumCells(m, {c \in cells : c[1] > c[2]})
            /\ ret.draw     = SumCells(m, {c \in cells : c[1] = c[2]})
            /\ ret.away_win = SumCells(m, {c \in cells : c[1] < c[2]})
            /\ ret.home_win + ret.draw + ret.away_win = SumCells(m, cells)

\* a favoured home side: the three outcomes are positive and differ
C24_Witness ==
    /\ args.op = "predict_match_outcome"
    /\ ret.status = "ok"
    /\ args.lambda_home > args.lambda_away
    /\ ret.home_win > ret.draw
    /\ ret.draw > 0
    /\ ret.away_win > 0
    /\ ret.home_win > ret.away_win

\* ------------------------------- specification: DixonColesModel (poisson.py)
Rhos == {Fx(-20, 100), Fx(-13, 100), Fx(10, 100)}    \* rho of the constructor

\* tau_correction with lambda_home and lambda_away exchanged on 1-0 and 0-1
tau_correction_swapped(home_goals, away_goals, lambda_home, lambda_away, rho) ==
    IF home_goals = 0 /\ away_goals = 0 THEN One - FMul(FMul(lambda_home, lambda_away), rho)
    ELSE IF home_goals = 1 /\ away_goals = 0 THEN One + FMul(lambda_home, rho)
    ELSE IF home_goals = 0 /\ away_goals = 1 THEN One + FMul(lambda_away, rho)
    ELSE IF home_goals = 1 /\ away_goals = 1 THEN One - rho
    ELSE One

\* DixonColesModel.tau_correction(home_goals, away_goals, lambda_home, lambda_away), self.rho = rho
tau_correction(home_goals, away_goals, lambda_home, lambda_away, rho) ==
    IF home_goals = 0 /\ away_goals = 0 THEN One - FMul(FMul(lambda_home, lambda_away), rho)
    ELSE IF home_goals = 1 /\ away_goals = 0 THEN One + FMul(lambda_away, rho)
    ELSE IF home_goals = 0 /\ away_goals = 1 THEN One + FMul(lambda_home, rho)
    ELSE IF home_goals = 1 /\ away_goals = 1 THEN One - rho
    ELSE One

\* DixonColesModel.predict_score_probability: tau * prob_poisson
dc_predict_score_probability(lambda_home, lambda_away, home_goals, away_goals, rho) ==
    FMul(tau_correction(home_goals, away_goals, lambda_home, lambda_away, rho),
         predict_score_probability(lambda_home, lambda_away, home_goals, away_goals))

\* prob_matrix of predict_match_outcome on a DixonColesModel
DCScoreMatrix(lambda_home, lambda_away, max_goals, rho) ==
    [h \in 1..(max_goals + 1) |->
        [a \in 1..(max_goals + 1) |->
            dc_predict_score_probability(lambda_home, lambda_away, h - 1, a - 1, rho)]]

\* DixonColesModel(rho=rho).predict_match_outcome(lambda_home, lambda_away, max_goals)
dc_predict_match_outcome(lambda_home, lambda_away, max_goals, rho) ==
    MatchOutcome(DCScoreMatrix(lambda_home, lambda_away, max_goals, rho),
                 lambda_home, lambda_away, max_goals)

InitCompare ==
    /\ args \in [op : {"compare_models"},
                 lambda_home : Lambdas,
                 lambda_away : Lambdas,
                 max_goals : 1..MaxScore,
                 rho : Rhos]
    /\ ret = NoRet
    /\ IdleDb

\* compare_models_accuracy, one match: both models predict the same lambdas
CompareModels ==
    /\ args.op = "compare_models"
    /\ ret = NoRet
    /\ ret' = [status |-> "ok",
               poisson_pred |-> predict_match_outcome(args.lambda_home, args.lambda_away,
                                                      args.max_goals),
               dc_pred |-> dc_predict_match_outcome(args.lambda_home, args.lambda_away,
                                                    args.max_goals, args.rho)]
    /\ UNCHANGED <<args, poisson_params, models, feature_columns, matches, predictions, elo_ratings, import_jobs, threads>>

NextCompare == CompareModels
SpecCompare == InitCompare /\ [][NextCompare]_vars

\* home_win + draw + away_win: the total mass of the matrix a prediction was read from
MassOf(pred) == pred.home_win + pred.draw + pred.away_win

\* the four cells Dixon-Coles corrects
LowScoreCells == {<<0, 0>>, <<1, 0>>, <<0, 1>>, <<1, 1>>}

\* C25: for the same lambdas and max_goals >= 1 the Dixon-Coles matrix has the
\* same total mass as the Poisson matrix: the two differ on the four low-score
\* cells only, and there the mass added and removed cancels exactly.
C25_SameMassExactly ==
    (args.op = "compare_models" /\ ret.status = "ok") =>
        LET p  == ScoreMatrix(args.lambda_home, args.lambda_away, args.max_goals)
            dc == DCScoreMatrix(args.lambda_home, args.lambda_away, args.max_goals, args.rho)
        IN  /\ \A c \in Cells(args.max_goals) \ LowScoreCells :
                   dc[c[1] + 1][c[2] + 1] = p[c[1] + 1][c[2] + 1]
            /\ MassOf(ret.dc_pred) = MassOf(ret.poisson_pred)

\* C25 as amended: the two matrices differ on the four low-score cells only,
\* and their total masses agree up to the rounding of the four corrected
\* products (half a unit each for tau and for tau * P)
C25_SameMassWithinRounding ==
    (args.op = "compare_models" /\ ret.status = "ok") =>
        LET p  == ScoreMatrix(args.lambda_home, args.lambda_away, args.max_goals)
            dc == DCScoreMatrix(args.lambda_home, args.lambda_away, args.max_goals, args.rho)
        IN  /\ \A c \in Cells(args.max_goals) \ LowScoreCells :
                   dc[c[1] + 1][c[2] + 1] = p[c[1] + 1][c[2] + 1]
            /\ Abs(MassOf(ret.dc_pred) - MassOf(ret.poisson_pred)) <= 4

\* the correction moved mass between the four cells: 0-0 gained, 1-0 lost,
\* and the totals differ by a rounding unit
C25_Witness ==
    /\ args.op = "compare_models"
    /\ ret.status = "ok"
    /\ args.rho < 0
    /\ LET p  == ScoreMatrix(args.lambda_home, args.lambda_away, args.max_goals)
           dc == DCScoreMatrix(args.lambda_home, args.lambda_away, args.max_goals, args.rho)
       IN  /\ dc[1][1] > p[1][1]
           /\ dc[2][1] < p[2][1]
    /\ MassOf(ret.dc_pred) # MassOf(ret.poisson_pred)

\* --------------------------- specification: estimate_team_strengths alone
MaxFixtureGoals == 2       \* goals of a side in the fitted matches: 0 .. MaxFixtureGoals

\* the fixtures of a round of three teams: 1 v 2, 2 v 3, 3 v 1
RoundFixture(i, home_goals, away_goals) ==
    [id |-> i, utc_date |-> i,
     home_team_id |-> i, away_team_id |-> (i % 3) + 1,
     home_score |-> home_goals, away_score |-> away_goals]

\* the non-empty sets of played fixtures, one result each
RoundResults ==
    UNION {{{RoundFixture(i, g[i][1], g[i][2]) : i \in ids} :
               g \in [ids -> (0..MaxFixtureGoals) \X (0..MaxFixtureGoals)]} :
           ids \in (SUBSET (1..3)) \ {{}}}

InitStrengths ==
    /\ args \in [op : {"estimate_team_strengths"}, matches : RoundResults]
    /\ ret = NoRet
    /\ IdleDb

\* estimate_team_strengths(match_data)['teams']
EstimateTeamStrengths ==
    /\ args.op = "estimate_team_strengths"
    /\ ret = NoRet
    /\ ret' = [status |-> "ok", teams |-> estimate_team_strengths(args.matches)]
    /\ UNCHANGED <<args, poisson_params, models, feature_columns, matches, predictions, elo_ratings, import_jobs, threads>>

NextStrengths == EstimateTeamStrengths
SpecStrengths == InitStrengths /\ [][NextStrengths]_vars

\* the number of matches of a team, and whether all teams played equally often
PlayedIn(ms, team_id) == Cardinality({m \in ms : Plays(m, team_id)})
EquallyPlayed(ms) ==
    \A m1, m2 \in ms :
        /\ PlayedIn(ms, m1.home_team_id) = PlayedIn(ms, m2.home_team_id)
        /\ PlayedIn(ms, m1.home_team_id) = PlayedIn(ms, m2.away_team_id)

RECURSIVE SumStrength(_, _, _)
SumStrength(team_params, teams, key) ==
    IF teams = {} THEN 0
    ELSE LET t == CHOOSE x \in teams : TRUE
         IN  team_params[t][key] + SumStrength(team_params, teams \ {t}, key)

\* the mean of a strength over the teams is 1, up to 2 % for the rounding of
\* the modelled averages and quotients
MeanIsOne(team_params, key) ==
    /\ \A t \in DOMAIN team_params : team_params[t][key] # NaN
    /\ Abs(SumStrength(team_params, DOMAIN team_params, key)
           - Cardinality(DOMAIN team_params) * One)
          * 50 <= Cardinality(DOMAIN team_params) * One

\* C26: on a non-empty partition in which all teams played the same number of
\* matches, the mean attack strength returned by estimate_team_strengths is 1,
\* and so is the mean defense strength.
C26_MeanStrengthIsOne ==
    (args.op = "estimate_team_strengths" /\ ret.status = "ok"
     /\ EquallyPlayed(args.matches)) =>
        /\ MeanIsOne(ret.teams, "attack")
        /\ MeanIsOne(ret.teams, "defense")

\* the means are 1 when every strength is a number above the floor of 0.3
C26_MeanIsOneAboveFloor ==
    (args.op = "estimate_team_strengths" /\ ret.status = "ok"
     /\ EquallyPlayed(args.matches)
     /\ \A t \in DOMAIN ret.teams :
            /\ ret.teams[t].attack > Fx(3, 10)
            /\ ret.teams[t].defense > Fx(3, 10)) =>
        /\ MeanIsOne(ret.teams, "attack")
        /\ MeanIsOne(ret.teams, "defense")

\* ------------- specification: the Dixon-Coles matrix of _predict_poisson
MaxStrengthHalves == 4     \* stored strengths: 0.3 and k / 2, k in 1..MaxStrengthHalves
Strengths == {Fx(3, 10)} \cup {Fx(k, 2) : k \in 1..MaxStrengthHalves}

\* PoissonModel.calculate_expected_goals(home_attack, home_defense, away_attack, away_defense)
\* with self.home_advantage = home_advantage and self.league_avg_goals = 2.7
calculate_expected_goals(home_attack, home_defense, away_attack, away_defense, home_advantage) ==
    [lambda_home |-> FMul(FMul(FMul(home_attack, away_defense), home_advantage), Fx(27, 10)),
     lambda_away |-> FMul(FMul(away_attack, home_defense), Fx(27, 10))]

\* the factors tau(x, y) that DixonColesModel(home_advantage=1.3, rho=-0.13)
\* applies to the low-score cells of prob_matrix in _predict_poisson; every
\* Poisson probability is positive, so a cell tau * P has the sign of tau
LowScoreTau(home_attack, home_defense, away_attack, away_defense) ==
    LET l == calculate_expected_goals(home_attack, home_defense, away_attack,
                                      away_defense, Fx(13, 10))
    IN  [c \in LowScoreCells |->
            tau_correction(c[1], c[2], l.lambda_home, l.lambda_away, Fx(-13, 100))]

InitMatrix ==
    /\ args \in [op : {"_predict_poisson"},
                 home_attack : Strengths, home_defense : Strengths,
                 away_attack : Strengths, away_defense : Strengths]
    /\ ret = NoRet
    /\ IdleDb

\* _predict_poisson up to the score matrix: the lambdas and the corrections
PredictPoissonMatrix ==
    /\ args.op = "_predict_poisson"
    /\ ret = NoRet
    /\ ret' = Merge([status |-> "ok",
                     tau |-> LowScoreTau(args.home_attack, args.home_defense,
                                         args.away_attack, args.away_defense)],
                    calculate_expected_goals(args.home_attack, args.home_defense,
                                             args.away_attack, args.away_defense,
                                             Fx(13, 10)))
    /\ UNCHANGED <<args, poisson_params, models, feature_columns, matches, predictions, elo_ratings, import_jobs, threads>>

NextMatrix == PredictPoissonMatrix
SpecMatrix == InitMatrix /\ [][NextMatrix]_vars

\* C29: for stored strengths >= 0.3 every cell of the Dixon-Coles matrix of
\* _predict_poisson is non-negative: tau(x, y) >= 0 on the four corrected
\* cells.
C29_TauNonNegative ==
    (args.op = "_predict_poisson" /\ ret.status = "ok") =>
        \A c \in LowScoreCells : ret.tau[c] >= 0

\* tau is non-negative on the four cells when both expected goals are at
\* most 1 / 0.13
C29_TauNonNegativeBelowLimit ==
    (args.op = "_predict_poisson" /\ ret.status = "ok"
     /\ 13 * ret.lambda_home <= 100 * One /\ 13 * ret.lambda_away <= 100 * One) =>
        \A c \in LowScoreCells : ret.tau[c] >= 0

\* ------------------- specification: background import jobs (views.py,
\* run_import_job.py, ImportJob).  One job is followed: the request that
\* starts it, the worker thread of run_import_job, the periodic flush thread
\* of LogCapturingStringIO, and one cancel request.  A log line is a pair
\* <<text, number>>.
NumPartitions == 3      \* (competition, season) pairs the import goes through

\* ImportJob.objects.create(..., status='pending'): the defaults of the model
NewImportJob ==
    [id |-> 1, status |-> "pending", logs |-> <<>>,
     progress_percentage |-> 0, cancel_requested |-> FALSE]

\* ImportJob.objects.get(pk=1)
GetJob(rows) == CHOOSE r \in rows : r.id = 1

\* Model.save() without update_fields: every column of the row is written
\* from the instance
SaveJob(rows, job) == {r \in rows : r.id # job.id} \cup {job}

\* ImportJob.append_log(message): the row is reloaded under select_for_update,
\* extended and saved with update_fields=['logs'], in one transaction
append_log(rows, pk, message) ==
    {IF r.id = pk THEN [r EXCEPT !.logs = Append(r.logs, message)] ELSE r : r \in rows}

\* ImportJob.update_progress(percentage, step): filter(pk=...).update(...)
update_progress(rows, pk, percentage) ==
    {IF r.id = pk THEN [r EXCEPT !.progress_percentage = percentage] ELSE r : r \in rows}

\* the threads right after start_import_view started the worker
StartedThreads ==
    [worker |-> [pc |-> "get", job |-> NewImportJob, processed |-> 0, lines_to_write |-> <<>>],
     log_lines |-> <<>>,
     flush |-> [pc |-> "none", running |-> FALSE, lines_to_write |-> <<>>],
     cancel |-> [pc |-> "idle", job |-> NewImportJob, processed_at_cancel |-> None]]

InitImport ==
    /\ args = NoCall
    /\ ret = NoRet
    /\ IdleDb

\* start_import_view: the job row is created and the worker thread started
StartImport ==
    /\ threads = NoThreads
    /\ import_jobs' = {NewImportJob}
    /\ threads' = StartedThreads
    /\ UNCHANGED <<args, ret, poisson_params, models, feature_columns, matches, predictions, elo_ratings>>

\* the threads exist and the worker is at position pc
WorkerAt(pc) == threads # NoThreads /\ threads.worker.pc = pc

\* handle: job = ImportJob.objects.get(pk=job_id)
WorkerGet ==
    /\ WorkerAt("get")
    /\ threads' = [threads EXCEPT !.worker.job = GetJob(import_jobs),
                                  !.worker.pc = "save_running"]
    /\ UNCHANGED <<args, ret, poisson_params, models, feature_columns, matches, predictions, elo_ratings, import_jobs>>

\* handle: job.status = 'running'; job.save(); LogCapturingStringIO(job_id)
\* starts the flush thread
WorkerSaveRunning ==
    /\ WorkerAt("save_running")
    /\ LET job == [threads.worker.job EXCEPT !.status = "running"]
       IN  /\ import_jobs' = SaveJob(import_jobs, job)
           /\ threads' = [threads EXCEPT !.worker.job = job,
                                         !.worker.pc = "import",
                                         !.flush.running = TRUE,
                                         !.flush.pc = "sleep"]
    /\ UNCHANGED <<args, ret, poisson_params, models, feature_columns, matches, predictions, elo_ratings>>

\* import_sofascore_complete: one (competition, season) pair is imported; its
\* progress is stored and its output written to the captured stdout.  The
\* command never reads cancel_requested.
ImportPartition ==
    /\ WorkerAt("import")
    /\ threads.worker.processed < NumPartitions
    /\ import_jobs' = update_progress(import_jobs, 1, 95)
    /\ threads' = [threads EXCEPT
                      !.worker.processed = @ + 1,
                      !.log_lines = Append(@, <<"imported", threads.worker.processed + 1>>)]
    /\ UNCHANGED <<args, ret, poisson_params, models, feature_columns, matches, predictions, elo_ratings>>

\* the import command raises (a request that fails, a row that does not save)
ImportRaises ==
    /\ WorkerAt("import")
    /\ threads.worker.processed < NumPartitions
    /\ threads' = [threads EXCEPT !.worker.pc = "except_close"]
    /\ UNCHANGED <<args, ret, poisson_params, models, feature_columns, matches, predictions, elo_ratings, import_jobs>>

\* the import command returns after its last pair
ImportReturns ==
    /\ WorkerAt("import")
    /\ threads.worker.processed = NumPartitions
    /\ import_jobs' = update_progress(import_jobs, 1, 100)
    /\ threads' = [threads EXCEPT !.worker.pc = "close"]
    /\ UNCHANGED <<args, ret, poisson_params, models, feature_columns, matches, predictions, elo_ratings>>

\* captured_stdout.close(): running = False, join(timeout=1), and
\* flush_logs_to_db takes the accumulated lines under the lock
WorkerClose ==
    /\ WorkerAt("close") \/ WorkerAt("except_close")
    /\ threads' = [threads EXCEPT
                      !.flush.running = FALSE,
                      !.worker.lines_to_write = threads.log_lines,
                      !.log_lines = <<>>,
                      !.worker.pc = IF threads.worker.pc = "close"
                                    THEN "close_write" ELSE "except_write"]
    /\ UNCHANGED <<args, ret, poisson_params, models, feature_columns, matches, predictions, elo_ratings, import_jobs>>

\* flush_logs_to_db called by close(): job.append_log(line), line by line
WorkerCloseWrite ==
    /\ WorkerAt("close_write") \/ WorkerAt("except_write")
    /\ IF threads.worker.lines_to_write # <<>>
       THEN /\ import_jobs' = append_log(import_jobs, 1, Head(threads.worker.lines_to_write))
            /\ threads' = [threads EXCEPT !.worker.lines_to_write = Tail(@)]
       ELSE /\ import_jobs' = import_jobs
            /\ threads' = [threads EXCEPT
                              !.worker.pc = IF threads.worker.pc = "close_write"
                                            THEN "mark_completed" ELSE "mark_failed"]
    /\ UNCHANGED <<args, ret, poisson_params, models, feature_columns, matches, predictions, elo_ratings>>

\* handle: job.status = 'completed'; job.progress_percentage = 100;
\* job.append_log('[SUCCESS] ...')
WorkerMarkCompleted ==
    /\ WorkerAt("mark_completed")
    /\ import_jobs' = append_log(import_jobs, 1, <<"[SUCCESS]", 0>>)
    /\ threads' = [threads EXCEPT
                      !.worker.job = [@ EXCEPT !.status = "completed",
                                               !.progress_percentage = 100],
                      !.worker.pc = "final_save"]
    /\ UNCHANGED <<args, ret, poisson_params, models, feature_columns, matches, predictions, elo_ratings>>

\* handle, except branch: job.status = 'failed'; job.append_log('[ERROR] ...')
WorkerMarkFailed ==
    /\ WorkerAt("mark_failed")
    /\ import_jobs' = append_log(import_jobs, 1, <<"[ERROR]", 0>>)
    /\ threads' = [threads EXCEPT !.worker.job = [@ EXCEPT !.status = "failed"],
                                  !.worker.pc = "failed_traceback"]
    /\ UNCHANGED <<args, ret, poisson_params, models, feature_columns, matches, predictions, elo_ratings>>

\* handle, except branch: job.append_log(traceback.format_exc())
WorkerLogTraceback ==
    /\ WorkerAt("failed_traceback")
    /\ import_jobs' = append_log(import_jobs, 1, <<"Traceback", 0>>)
    /\ threads' = [threads EXCEPT !.worker.pc = "final_save"]
    /\ UNCHANGED <<args, ret, poisson_params, models, feature_columns, matches, predictions, elo_ratings>>

\* handle: the job.save() that ends both branches
WorkerFinalSave ==
    /\ WorkerAt("final_save")
    /\ import_jobs' = SaveJob(import_jobs, threads.worker.job)
    /\ threads' = [threads EXCEPT !.worker.pc = "done"]
    /\ UNCHANGED <<args, ret, poisson_params, models, feature_columns, matches, predictions, elo_ratings>>

\* _periodic_flush after time.sleep(2): flush_logs_to_db takes the lines
\* under the lock (or finds none), then the loop tests self.running
FlushTake ==
    /\ threads # NoThreads
    /\ threads.flush.pc = "sleep"
    /\ threads' = [threads EXCEPT
                      !.flush.lines_to_write = threads.log_lines,
                      !.log_lines = <<>>,
                      !.flush.pc = "write"]
    /\ UNCHANGED <<args, ret, poisson_params, models, feature_columns, matches, predictions, elo_ratings, import_jobs>>

\* flush_logs_to_db of the flush thread: job.append_log(line), line by line;
\* after the last line "while self.running" sleeps again or ends the thread
FlushWrite ==
    /\ threads # NoThreads
    /\ threads.flush.pc = "write"
    /\ IF threads.flush.lines_to_write # <<>>
       THEN /\ import_jobs' = append_log(import_jobs, 1, Head(threads.flush.lines_to_write))
            /\ threads' = [threads EXCEPT !.flush.lines_to_write = Tail(@)]
       ELSE /\ import_jobs' = import_jobs
            /\ threads' = [threads EXCEPT
                              !.flush.pc = IF threads.flush.running THEN "sleep" ELSE "exit"]
    /\ UNCHANGED <<args, ret, poisson_params, models, feature_columns, matches, predictions, elo_ratings>>

\* cancel_import_view: job = get_object_or_404(...); for a running job
\* job.cancel_requested = True; job.status = 'cancelled'.  (For any other
\* status the view answers 400 and changes nothing.)
CancelGet ==
    /\ threads # NoThreads
    /\ threads.cancel.pc = "idle"
    /\ GetJob(import_jobs).status = "running"
    /\ threads' = [threads EXCEPT
                      !.cancel.job = [GetJob(import_jobs) EXCEPT !.cancel_requested = TRUE,
                                                                 !.status = "cancelled"],
                      !.cancel.pc = "append_log"]
    /\ UNCHANGED <<args, ret, poisson_params, models, feature_columns, matches, predictions, elo_ratings, import_jobs>>

\* cancel_import_view: job.append_log('[CANCELLED] Import cancelled by user')
CancelAppendLog ==
    /\ threads # NoThreads
    /\ threads.cancel.pc = "append_log"
    /\ import_jobs' = append_log(import_jobs, 1, <<"[CANCELLED]", 0>>)
    /\ threads' = [threads EXCEPT !.cancel.pc = "save"]
    /\ UNCHANGED <<args, ret, poisson_params, models, feature_columns, matches, predictions, elo_ratings>>

\* cancel_import_view: job.save().  processed_at_cancel is not a variable of
\* the program: it records how many pairs the import had processed when the
\* flag was stored
CancelSave ==
    /\ threads # NoThreads
    /\ threads.cancel.pc = "save"
    /\ import_jobs' = SaveJob(import_jobs, threads.cancel.job)
    /\ threads' = [threads EXCEPT !.cancel.pc = "done",
                                  !.cancel.processed_at_cancel = threads.worker.processed]
    /\ UNCHANGED <<args, ret, poisson_params, models, feature_columns, matches, predictions, elo_ratings>>

NextImport ==
    \/ StartImport
    \/ WorkerGet
    \/ WorkerSaveRunning
    \/ ImportPartition
    \/ ImportRaises
    \/ ImportReturns
    \/ WorkerClose
    \/ WorkerCloseWrite
    \/ WorkerMarkCompleted
    \/ WorkerMarkFailed
    \/ WorkerLogTraceback
    \/ WorkerFinalSave
    \/ FlushTake
    \/ FlushWrite
    \/ CancelGet
    \/ CancelAppendLog
    \/ CancelSave
SpecImport == InitImport /\ [][NextImport]_vars

\* C27: once cancel_import_view has stored cancel_requested for a running
\* job, the import stops at its next pair: after the flag is stored it
\* finishes at most the pair in progress and does not go on to the end.
C27_CancelStopsImport ==
    (threads # NoThreads /\ threads.cancel.processed_at_cancel # None) =>
        threads.worker.processed <= threads.cancel.processed_at_cancel + 1

\* the stored log lines of the job
StoredLogs == GetJob(import_jobs).logs

\* C28: ImportJob.logs is append-only: a line that append_log has stored is
\* still in the stored logs after every later step of the worker, the flush
\* thread and the request handlers.
C28_LogsAppendOnly ==
    [][import_jobs # {} =>
          \A i \in 1..Len(StoredLogs) :
              \E j \in 1..Len(StoredLogs') : StoredLogs'[j] = StoredLogs[i]]_vars

\* C30: a stored status 'cancelled' is final: no later step stores another
\* status or clears cancel_requested.
C30_CancelledIsAbsorbing ==
    [][(import_jobs # {} /\ GetJob(import_jobs).status = "cancelled") =>
          /\ GetJob(import_jobs').status = "cancelled"
          /\ GetJob(import_jobs').cancel_requested]_vars

====
